---- MODULE Spec2Model ----
(***************************************************************************)
(* A model of otplc: the OTPL column specification (colspec.py), the OTPL  *)
(* reader and column guesser (reader.py) and the OTPL-to-brat converter    *)
(* (converter.py).                                                         *)
(*                                                                         *)
(* Conventions.  Column indices are the 0-based indices of the Python      *)
(* code; a Python list is a TLA+ sequence read through Col / PyIndex.  An  *)
(* attribute that is None or an int is a set with no or one element.  A    *)
(* dict is a function on its keys.  A string that the code inspects        *)
(* (isdigit, startswith, index, split) is a sequence of one-character      *)
(* strings.  A raised exception is a final state that records its class    *)
(* and which raise statement produced it.                                  *)
(***************************************************************************)
EXTENDS Integers, Sequences, FiniteSets, TLC

VARIABLES
    \* ---- ColumnSpecification construction (colspec.py) ----
    cs_headers,   \* the header tokens, header.split()
    colspec,      \* the integer list, parse_colspec(header)
    cs_pc,        \* "parse", "init", "done", "printed", "error"
    cs_idx,       \* the column __init__ initializes next
    cs_err,       \* the exception that ended construction
    self,         \* the ColumnSpecification instance under construction
    cs_str,       \* str(self), split into its names
    \* ---- token offsets of one conversion (converter.py) ----
    _text,        \* the text file, read into memory
    off_segments, \* the token column of the segments the reader yields
    off_pc,       \* "run", "done", "error"
    off_seg,      \* the number of segments converted so far
    off_row,      \* idx, the row of the current segment _yield_offsets is at
    off_start,    \* start, the offset the next token is searched from
    off_offsets,  \* the (start, end) pairs yielded, in row order
    off_tokens,   \* the token of each yielded pair
    \* ---- iterating an OtplReader (reader.py) ----
    rd_lines,     \* the lines of the file, without their line ends
    rd_filter,    \* the filter regex
    rd_pc,        \* "run", "done", "error"
    rd_lno,       \* the number of lines read so far
    rd_column_count, \* column_count
    rd_segment,   \* segment, the rows collected since the last yield
    rd_yielded,   \* the segments yielded so far
    rd_err,       \* the arguments of the DataFormatError raised
    \* ---- guess_colspec (reader.py) ----
    g_segments,   \* the segments the reader yields
    g_raises,     \* the exception the reader raises after them, "" if none
    g_pc,         \* "iterate", "build", "returned", "raised"
    g_idx,        \* the number of segments _make_guess has taken
    g_guess,      \* guess of _make_guess: NoGuess or the Guess instance
    g_last_round, \* last_round
    g_err,        \* the exception guess_colspec raised
    g_ints,       \* the column types of the ColumnSpecification returned
    g_spec,       \* the ColumnSpecification returned, when g_ints # <<>>
    \* ---- otpl_to_brat (converter.py) ----
    b_files,      \* configuration.input_files, each with what its I/O does
    b_separator,  \* configuration.separator is not None
    b_colspec,    \* configuration.colspec is not None
    b_pc,         \* "loop", "returned", "raised"
    b_i,          \* the number of input files the loop has taken
    b_errors,     \* errors
    b_err,        \* the exception otpl_to_brat raised
    b_converted,  \* the input files for which convert returned True
    b_config,     \* the brat configuration file next to the last input
                  \* file: "exists", "" (not there), or the exception
                  \* opening it for writing raises
    \* ---- the annotation types (brat.py) ----
    br_pc,        \* "construct", "serialized", "parsed back", "raised",
                  \* "read", "accepted", "rejected", "written"
    br_x,         \* the annotation constructed, or the exception of __init__
    br_line,      \* the line: str(x), or a line of a file
    br_y,         \* from_string(line), or its exception
    br_out,       \* str(from_string(line))
    \* ---- segment_otpl_file (extractor.py) ----
    ex_lines,     \* the lines of the OTPL file
    ex_factor,    \* factor
    ex_pc,        \* "loop", "returned"
    ex_i,         \* the number of lines read
    ex_segment_count, \* segment_count
    ex_files,     \* the lines written to each output file
    ex_names,     \* segment_file_names, as segment ids
    ex_exists,    \* the segment ids of the files that exist
    \* ---- converter.py: OtplBratConverter.convert ----
    cv_colspec,   \* self._colspec, the ColumnSpecification of set_colspec
    cv_name_dict, \* self._name_dict
    cv_text,      \* the content of the text file
    cv_segments,  \* the segments of the OTPL file
    cv_pc,        \* where convert is
    cv_seg,       \* the number of the segment the loop is at
    cv_offset,    \* offset of _convert_local and _convert_with_globals
    cv_local_maps, \* local_maps of _convert_with_globals
    cv_replayed,  \* the segments whose maps the second loop took
    converter,    \* the per-file state of the converter
    cv_result     \* what convert returned

csVars == <<cs_headers, colspec, cs_pc, cs_idx, cs_err, self, cs_str>>

offVars == <<_text, off_segments, off_pc, off_seg, off_row, off_start,
             off_offsets, off_tokens>>

rdVars == <<rd_lines, rd_filter, rd_pc, rd_lno, rd_column_count,
            rd_segment, rd_yielded, rd_err>>

gVars == <<g_segments, g_raises, g_pc, g_idx, g_guess, g_last_round, g_err,
           g_ints, g_spec>>

bVars == <<b_files, b_separator, b_colspec, b_pc, b_i, b_errors, b_err,
           b_converted, b_config>>

brVars == <<br_pc, br_x, br_line, br_y, br_out>>

exVars == <<ex_lines, ex_factor, ex_pc, ex_i, ex_segment_count, ex_files,
            ex_names, ex_exists>>

cvVars == <<cv_colspec, cv_name_dict, cv_text, cv_segments, cv_pc, cv_seg,
            cv_offset, cv_local_maps, cv_replayed, converter, cv_result>>

vars == <<csVars, offVars, rdVars, gVars, bVars, brVars, exVars, cvVars>>

\* the state a part of the program leaves as it is
notCsVars == <<offVars, rdVars, gVars, bVars, brVars, exVars, cvVars>>
notOffVars == <<csVars, rdVars, gVars, bVars, brVars, exVars, cvVars>>
notRdVars == <<csVars, offVars, gVars, bVars, brVars, exVars, cvVars>>
notGVars == <<csVars, offVars, rdVars, bVars, brVars, exVars, cvVars>>
notBVars == <<csVars, offVars, rdVars, gVars, brVars, exVars, cvVars>>
notBrVars == <<csVars, offVars, rdVars, gVars, bVars, exVars, cvVars>>
notExVars == <<csVars, offVars, rdVars, gVars, bVars, brVars, cvVars>>
notCvVars == <<csVars, offVars, rdVars, gVars, bVars, brVars, exVars>>

(***************************************************************************)
(* Python helpers                                                          *)
(***************************************************************************)

\* list[i] for a Python index i >= 0
Col(list, i) == list[i + 1]

\* Whether list[i] raises IndexError
IndexErrorAt(list, i) == i >= Len(list) \/ i < 0 - Len(list)

\* list[i] with Python's negative indices: list[-1] is the last element
PyIndex(list, i) == IF i >= 0 THEN list[i + 1] ELSE list[Len(list) + i + 1]

\* reversed(seq)
RECURSIVE Reversed(_)
Reversed(seq) ==
    IF seq = <<>> THEN <<>> ELSE Reversed(Tail(seq)) \o <<Head(seq)>>

\* the keys of a set of ints in ascending order
RECURSIVE Ascending(_)
Ascending(S) ==
    IF S = {} THEN <<>>
    ELSE LET m == CHOOSE x \in S : \A y \in S : x <= y
         IN  <<m>> \o Ascending(S \ {m})

(***************************************************************************)
(* The order in which CPython iterates a set of small non-negative ints    *)
(* (their hash is their value): the order of the slots of its hash table,  *)
(* which starts with 8 slots and is rebuilt with four times as many slots  *)
(* as entries, rounded up to a power of two, once three fifths are full.   *)
(***************************************************************************)

\* a hash table of size slots, -1 in the slots that are free
SetTable(size) == [j \in 0..(size - 1) |-> 0 - 1]

\* the first free slot of the probes for a key: slot i and, when they fit
\* in the table, the nine slots after it; then slot (5 i + 1 + perturb)
\* modulo the size, with perturb shifted right by 5 bits
RECURSIVE FreeSlot(_, _, _, _)
FreeSlot(table, mask, i, perturb) ==
    LET probes == IF i + 9 <= mask THEN 9 ELSE 0
        free == { j \in i..(i + probes) : table[j] = 0 - 1 }
    IN  IF free # {} THEN CHOOSE j \in free : \A k \in free : j <= k
        ELSE FreeSlot(table, mask,
                      (i * 5 + 1 + (perturb \div 32)) % (mask + 1),
                      perturb \div 32)

\* the table with the key in the first free slot of its probes
SetInsert(table, key) ==
    LET size == Cardinality(DOMAIN table)
    IN  [table EXCEPT ![FreeSlot(table, size - 1, key % size, key)] = key]

\* the keys of a table in the order of its slots
RECURSIVE SlotOrder(_, _)
SlotOrder(table, j) ==
    IF j \notin DOMAIN table THEN <<>>
    ELSE IF table[j] = 0 - 1 THEN SlotOrder(table, j + 1)
    ELSE <<table[j]>> \o SlotOrder(table, j + 1)

\* the smallest power of two from size on that exceeds minused
RECURSIVE TableSize(_, _)
TableSize(size, minused) ==
    IF size <= minused THEN TableSize(2 * size, minused) ELSE size

\* the keys inserted one after the other
RECURSIVE SetInsertAll(_, _)
SetInsertAll(table, keys) ==
    IF keys = <<>> THEN table
    ELSE SetInsertAll(SetInsert(table, Head(keys)), Tail(keys))

\* set.add(key) of a key that is not in the set
SetAdd(table, key) ==
    LET added == SetInsert(table, key)
        fill == Len(SlotOrder(added, 0))
        mask == Cardinality(DOMAIN table) - 1
    IN  IF fill * 5 < mask * 3 THEN added
        ELSE SetInsertAll(SetTable(TableSize(8, fill * 4)),
                          SlotOrder(added, 0))

RECURSIVE SetAddAll(_, _)
SetAddAll(table, keys) ==
    IF keys = <<>> THEN table
    ELSE SetAddAll(SetAdd(table, Head(keys)), Tail(keys))

\* iter(S) for a set S of column numbers that were added in ascending order
IterSet(S) == SlotOrder(SetAddAll(SetTable(8), Ascending(S)), 0)

\* dict[key] = value
DictSet(dict, key, value) ==
    [k \in DOMAIN dict \cup {key} |-> IF k = key THEN value ELSE dict[k]]

(***************************************************************************)
(* colspec.py: the column types                                            *)
(***************************************************************************)

_ANNOTATION == 99
_UNKNOWN == 0
LOCAL_ENUM == 4
GLOBAL_ENUM == 3
SEGMENT_ID == 2
TOKEN == 1
POS_TAG == 5
ENTITY == 6
NORMALIZATION == 7
RELATION == 8
EVENT == 9
ATTRIBUTE == 10
LOCAL_REF == 11
GLOBAL_REF == 12

_ENTITY_COLUMNS == {POS_TAG, ENTITY}

_ENUM_COLUMNS == {LOCAL_ENUM, GLOBAL_ENUM}

_SKIPPED_COLUMNS ==
    {GLOBAL_REF, LOCAL_REF, ATTRIBUTE, NORMALIZATION, EVENT, RELATION}

_PROPERTY_TARGET_COLUMNS == {POS_TAG, ENTITY, RELATION, EVENT}

\* ColumnSpecificationMetaClass._get_mapping: the upper-case int attributes
NameTable ==
    { <<"_ANNOTATION", _ANNOTATION>>, <<"_UNKNOWN", _UNKNOWN>>,
      <<"LOCAL_ENUM", LOCAL_ENUM>>, <<"GLOBAL_ENUM", GLOBAL_ENUM>>,
      <<"SEGMENT_ID", SEGMENT_ID>>, <<"TOKEN", TOKEN>>,
      <<"POS_TAG", POS_TAG>>, <<"ENTITY", ENTITY>>,
      <<"NORMALIZATION", NORMALIZATION>>, <<"RELATION", RELATION>>,
      <<"EVENT", EVENT>>, <<"ATTRIBUTE", ATTRIBUTE>>,
      <<"LOCAL_REF", LOCAL_REF>>, <<"GLOBAL_REF", GLOBAL_REF>> }

\* ColumnSpecification.NAMES: name -> integer
NAMES ==
    [n \in {p[1] : p \in NameTable} |->
        (CHOOSE p \in NameTable : p[1] = n)[2]]

\* ColumnSpecification.INTEGERS: integer -> name
INTEGERS ==
    [c \in {p[2] : p \in NameTable} |->
        (CHOOSE p \in NameTable : p[2] = c)[1]]

(***************************************************************************)
(* Header tokens.  One token of header.split() is NAME or NAME:N; the      *)
(* record keeps the part before the colon and the integer after it, or     *)
(* that the text after the colon is one int() raises ValueError on.        *)
(***************************************************************************)

HeaderToken(name, suffix) ==
    [name |-> name, suffix |-> suffix, invalid |-> FALSE]

\* a token NAME:text with a text that int() rejects
InvalidSuffixToken(name) == [name |-> name, suffix |-> {}, invalid |-> TRUE]

\* ':' in header
HasSuffix(tok) == tok.suffix # {} \/ tok.invalid

\* int(header[header.index(':') + 1:])
SuffixValue(tok) == CHOOSE n \in tok.suffix : TRUE

\* ColumnSpecification.to_string, split: INTEGERS.get(c, '_TYPE_')
to_string(ints) ==
    [i \in 1..Len(ints) |->
        HeaderToken(IF ints[i] \in DOMAIN INTEGERS
                    THEN INTEGERS[ints[i]] ELSE "_TYPE_", {})]

\* ColumnSpecification.parse_colspec / __get_value
parse_colspec(headers) ==
    IF \E i \in 1..Len(headers) : headers[i].name \notin DOMAIN NAMES
    THEN [err |-> "ValueError:illegal", colspec |-> <<>>]
    ELSE [err |-> "",
          colspec |-> [i \in 1..Len(headers) |-> NAMES[headers[i].name]]]

(***************************************************************************)
(* ColumnSpecification.__init__ and the registration methods.  Each        *)
(* returns [err, obj]: err is "" and obj the updated instance, or err is   *)
(* the exception raised.                                                   *)
(***************************************************************************)

Ok(obj) == [err |-> "", obj |-> obj]
Raise(obj, e) == [err |-> e, obj |-> obj]

\* the attributes __init__ sets before the loop
NewColumnSpecification(w) ==
    [_width |-> w, _token |-> {}, _global_enum |-> {}, _local_enum |-> {},
     _pos_tag |-> {}, _segment_ids |-> {}, _entities |-> {},
     _events |-> <<>>, _relations |-> <<>>, _global_refs |-> <<>>,
     _local_refs |-> <<>>, _normalizations |-> <<>>, _attributes |-> <<>>,
     _ref_targets |-> <<>>]

\* ColumnSpecification._set_column
_set_column(obj, attr, val) ==
    IF obj[attr] = {}
    THEN Ok([obj EXCEPT ![attr] = {val}])
    ELSE Raise(obj, "ValueError:already assigned")

\* ScanLeft without the test against _SKIPPED_COLUMNS: any column is skipped
RECURSIVE ScanLeftAllSkipped(_, _, _)
ScanLeftAllSkipped(ints, target, targets) ==
    IF target <= 0 THEN [err |-> "ValueError:with no target", target |-> 0]
    ELSE IF Col(ints, target) \in targets
         THEN [err |-> "", target |-> target]
         ELSE ScanLeftAllSkipped(ints, target - 1, targets)

\* ScanLeft down to column 0: the first column is examined as well
RECURSIVE ScanLeftToFirst(_, _, _)
ScanLeftToFirst(ints, target, targets) ==
    IF target < 0 THEN [err |-> "ValueError:with no target", target |-> 0]
    ELSE IF Col(ints, target) \in targets
         THEN [err |-> "", target |-> target]
         ELSE IF Col(ints, target) \notin _SKIPPED_COLUMNS
              THEN [err |-> "ValueError:has no target", target |-> 0]
              ELSE ScanLeftToFirst(ints, target - 1, targets)

\* __set_target with the walk of ScanLeftToFirst
set_target_to_first(obj, attr, ints, col, targets) ==
    LET r == ScanLeftToFirst(ints, col - 1, targets)
    IN  IF r.err = ""
        THEN Ok([obj EXCEPT ![attr] = DictSet(@, col, r.target)])
        ELSE Raise(obj, r.err)

\* the loop of __set_target from column `target` leftwards, down to column 1
RECURSIVE ScanLeft(_, _, _)
ScanLeft(ints, target, targets) ==
    IF target <= 0 THEN [err |-> "ValueError:with no target", target |-> 0]
    ELSE IF Col(ints, target) \in targets
         THEN [err |-> "", target |-> target]
         ELSE IF Col(ints, target) \notin _SKIPPED_COLUMNS
              THEN [err |-> "ValueError:has no target", target |-> 0]
              ELSE ScanLeft(ints, target - 1, targets)

\* ColumnSpecification.__set_target on the dict obj[attr]
set_target(obj, attr, ints, col, targets) ==
    LET r == ScanLeft(ints, col - 1, targets)
    IN  IF r.err = ""
        THEN Ok([obj EXCEPT ![attr] = DictSet(@, col, r.target)])
        ELSE Raise(obj, r.err)

\* __set_target_from_header scanning for the targets of a property column
set_target_from_header_as_property(obj, attr, headers, ints, col) ==
    IF Col(headers, col).invalid
    THEN Raise(obj, "ValueError:invalid literal")
    ELSE IF HasSuffix(Col(headers, col))
    THEN LET target == SuffixValue(Col(headers, col)) - 1
         IN  IF IndexErrorAt(ints, target)
             THEN Raise(obj, "IndexError")
             ELSE IF PyIndex(ints, target) \in _PROPERTY_TARGET_COLUMNS
                  THEN Ok([obj EXCEPT ![attr] = DictSet(@, col, target)])
                  ELSE Raise(obj, "ValueError:target invalid")
    ELSE set_target(obj, attr, ints, col, _PROPERTY_TARGET_COLUMNS)

\* ColumnSpecification.__set_target_from_header
set_target_from_header(obj, attr, headers, ints, col) ==
    IF Col(headers, col).invalid
    THEN Raise(obj, "ValueError:invalid literal")
    ELSE IF HasSuffix(Col(headers, col))
    THEN LET target == SuffixValue(Col(headers, col)) - 1
         IN  IF IndexErrorAt(ints, target)
             THEN Raise(obj, "IndexError")
             ELSE IF PyIndex(ints, target) \in _PROPERTY_TARGET_COLUMNS
                  THEN Ok([obj EXCEPT ![attr] = DictSet(@, col, target)])
                  ELSE Raise(obj, "ValueError:target invalid")
    ELSE set_target(obj, attr, ints, col, _ENTITY_COLUMNS)

\* ColumnSpecification.__ensure_undefined
ensure_undefined(obj, attr, col) == col \notin DOMAIN obj[attr]

\* ColumnSpecification._add_relation
_add_relation(obj, headers, ints, col) ==
    IF PyIndex(ints, col - 1) \notin {LOCAL_REF, GLOBAL_REF}
    THEN Raise(obj, "ValueError:has no reference")
    ELSE IF ~ensure_undefined(obj, "_relations", col)
         THEN Raise(obj, "ValueError:already mapped")
         ELSE set_target_from_header(obj, "_relations", headers, ints, col)

\* ColumnSpecification._add_reference
_add_reference(obj, attr, headers, ints, col) ==
    IF ~ensure_undefined(obj, attr, col)
    THEN Raise(obj, "ValueError:already mapped")
    ELSE set_target_from_header(obj, attr, headers, ints, col)

\* ColumnSpecification._add_property
_add_property(obj, attr, ints, col) ==
    IF ~ensure_undefined(obj, attr, col)
    THEN Raise(obj, "ValueError:already mapped")
    ELSE set_target(obj, attr, ints, col, _PROPERTY_TARGET_COLUMNS)

\* ColumnSpecification.__get_references_before: the indices it yields
RECURSIVE get_references_before_from(_, _)
get_references_before_from(ints, idx) ==
    IF idx <= 0 THEN <<>>
    ELSE IF Col(ints, idx) \in {LOCAL_REF, GLOBAL_REF}
         THEN <<idx>> \o get_references_before_from(ints, idx - 1)
         ELSE <<>>

get_references_before(ints, col) == get_references_before_from(ints, col - 1)

\* ColumnSpecification.__init_events: the loop over self._events, in the
\* dict's insertion order (ascending columns)
RECURSIVE init_events_loop(_, _, _)
init_events_loop(obj, ints, cols) ==
    IF cols = <<>> THEN Ok(obj)
    ELSE LET col == Head(cols)
             ref_cols == Reversed(get_references_before(ints, col))
         IN  IF ref_cols = <<>>
             THEN Raise(obj, "IndexError")
             ELSE LET set == [obj EXCEPT !._events =
                                DictSet(@, col, <<Head(ref_cols), Tail(ref_cols)>>)]
                  IN  IF Len(Tail(ref_cols)) < 1
                      THEN Raise(set, "ValueError:less than two references")
                      ELSE init_events_loop(set, ints, Tail(cols))

init_events(obj, ints) ==
    init_events_loop(obj, ints, Ascending(DOMAIN obj._events))

\* ColumnSpecification.get_type: {} is None
get_type(obj, col) ==
    IF col \in obj._token THEN {TOKEN}
    ELSE IF col \in obj._global_enum THEN {GLOBAL_ENUM}
    ELSE IF col \in obj._local_enum THEN {LOCAL_ENUM}
    ELSE IF col \in obj._pos_tag THEN {POS_TAG}
    ELSE IF col \in obj._segment_ids THEN {SEGMENT_ID}
    ELSE IF col \in obj._entities THEN {ENTITY}
    ELSE IF col \in DOMAIN obj._events THEN {EVENT}
    ELSE IF col \in DOMAIN obj._relations THEN {RELATION}
    ELSE IF col \in DOMAIN obj._normalizations THEN {NORMALIZATION}
    ELSE IF col \in DOMAIN obj._attributes THEN {ATTRIBUTE}
    ELSE IF col \in DOMAIN obj._global_refs THEN {GLOBAL_REF}
    ELSE IF col \in DOMAIN obj._local_refs THEN {LOCAL_REF}
    ELSE {}

\* ColumnSpecification.__str__: the names it joins
RECURSIVE str_from(_, _)
str_from(obj, col) ==
    LET coltype == get_type(obj, col)
    IN  IF coltype # {} /\ col < obj._width
        THEN <<HeaderToken(INTEGERS[CHOOSE c \in coltype : TRUE], {})>>
             \o str_from(obj, col + 1)
        ELSE <<>>

str(obj) == str_from(obj, 0)

\* ColumnSpecification.iter_entities: iter(self._entities)
iter_entities(obj) == IterSet(obj._entities)

\* ColumnSpecification.get_reference_target
get_reference_target(obj, ref) ==
    IF ref \in DOMAIN obj._global_refs
    THEN obj._global_refs[ref] ELSE obj._local_refs[ref]

(***************************************************************************)
(* The headers the construction is run on                                  *)
(***************************************************************************)

\* the widest header without a NAME:N column
MaxWidth == 4

\* the widest header with a NAME:N column
MaxSuffixedWidth == 3

\* the names a header column is drawn from
HeaderNames == DOMAIN NAMES

\* the column types whose NAME:N suffix is drawn
SuffixedNames ==
    {"LOCAL_REF", "GLOBAL_REF", "RELATION", "NORMALIZATION", "ATTRIBUTE"}

\* the values of N: 0 and MaxSuffixedWidth + 1 are outside every such header
Suffixes == 0..(MaxSuffixedWidth + 1)

\* the widest header of two relation columns after one tag column
MaxRelationWidth == 6

\* the names the columns of those headers are drawn from
RelationNames == {"TOKEN", "POS_TAG", "LOCAL_REF", "RELATION"}

(***************************************************************************)
(* ColumnSpecification.from_string as a state machine: parse_colspec, then *)
(* one step of the loop of __init__ per column, then __init_events, then   *)
(* str() of the result.                                                    *)
(***************************************************************************)

\* the headers of plain names (header.split() of from_string, and the
\* to_string(colspec).split() that from_integers hands to __init__), the
\* headers with exactly one NAME:N column, and the wider headers of tag,
\* reference and relation columns
InitColspec ==
    /\ \/ \E w \in 1..MaxWidth : \E ints \in [1..w -> DOMAIN INTEGERS] :
             cs_headers = to_string(ints)
       \/ \E w \in 2..MaxSuffixedWidth : \E names \in [1..w -> HeaderNames] :
          \E k \in 1..w : \E n \in Suffixes :
             /\ names[k] \in SuffixedNames
             /\ cs_headers =
                  [i \in 1..w |->
                     HeaderToken(names[i], IF i = k THEN {n} ELSE {})]
       \/ \E w \in (MaxWidth + 1)..MaxRelationWidth :
          \E names \in [1..w -> RelationNames] :
             cs_headers = [i \in 1..w |-> HeaderToken(names[i], {})]
    /\ colspec = <<>>
    /\ cs_pc = "parse"
    /\ cs_idx = 0
    /\ cs_err = ""
    /\ self = NewColumnSpecification(0)
    /\ cs_str = <<>>

\* from_string: parse_colspec and the assertions that open __init__
from_string ==
    /\ cs_pc = "parse"
    /\ LET r == parse_colspec(cs_headers)
       IN  IF r.err # ""
           THEN /\ cs_pc' = "error" /\ cs_err' = r.err
                /\ UNCHANGED <<colspec, self>>
           ELSE IF ~(Len(r.colspec) > 1)
                   \/ ~(Len(r.colspec) = Len(cs_headers))
                THEN /\ cs_pc' = "error" /\ cs_err' = "AssertionError"
                     /\ colspec' = r.colspec
                     /\ UNCHANGED self
                ELSE /\ cs_pc' = "init"
                     /\ colspec' = r.colspec
                     /\ self' = NewColumnSpecification(Len(r.colspec))
                     /\ UNCHANGED cs_err
    /\ UNCHANGED <<cs_headers, cs_idx, cs_str, notCsVars>>

\* the loop of __init__ is at a column of type coltype
AtColumn(coltype) ==
    /\ cs_pc = "init"
    /\ cs_idx < Len(colspec)
    /\ Col(colspec, cs_idx) = coltype

\* initialize[coltype](idx) returned or raised
Initialized(r) ==
    /\ IF r.err = ""
       THEN /\ self' = r.obj
            /\ cs_idx' = cs_idx + 1
            /\ UNCHANGED <<cs_pc, cs_err>>
       ELSE /\ cs_pc' = "error"
            /\ cs_err' = r.err
            /\ UNCHANGED <<self, cs_idx>>
    /\ UNCHANGED <<cs_headers, colspec, cs_str, notCsVars>>

set_token ==
    AtColumn(TOKEN) /\ Initialized(_set_column(self, "_token", cs_idx))

set_global_enum ==
    AtColumn(GLOBAL_ENUM)
    /\ Initialized(_set_column(self, "_global_enum", cs_idx))

set_local_enum ==
    AtColumn(LOCAL_ENUM)
    /\ Initialized(_set_column(self, "_local_enum", cs_idx))

set_pos_tag ==
    AtColumn(POS_TAG) /\ Initialized(_set_column(self, "_pos_tag", cs_idx))

add_segment_id ==
    AtColumn(SEGMENT_ID)
    /\ Initialized(Ok([self EXCEPT !._segment_ids = @ \cup {cs_idx}]))

add_entity ==
    AtColumn(ENTITY)
    /\ Initialized(Ok([self EXCEPT !._entities = @ \cup {cs_idx}]))

\* lambda col: self._events.setdefault(col, None); <<>> is None
add_event ==
    AtColumn(EVENT)
    /\ Initialized(Ok([self EXCEPT !._events =
                        IF cs_idx \in DOMAIN @ THEN @
                        ELSE DictSet(@, cs_idx, <<>>)]))

add_relation ==
    AtColumn(RELATION)
    /\ Initialized(_add_relation(self, cs_headers, colspec, cs_idx))

add_global_ref ==
    AtColumn(GLOBAL_REF)
    /\ Initialized(_add_reference(self, "_global_refs", cs_headers, colspec,
                                  cs_idx))

add_local_ref ==
    AtColumn(LOCAL_REF)
    /\ Initialized(_add_reference(self, "_local_refs", cs_headers, colspec,
                                  cs_idx))

add_normalization ==
    AtColumn(NORMALIZATION)
    /\ Initialized(_add_property(self, "_normalizations", colspec, cs_idx))

add_attribute ==
    AtColumn(ATTRIBUTE)
    /\ Initialized(_add_property(self, "_attributes", colspec, cs_idx))

\* lambda col: L.info('ignoring _UNKNOWN column %s', col + 1)
ignore_unknown ==
    AtColumn(_UNKNOWN) /\ Initialized(Ok(self))

\* except KeyError: raise ValueError('unknown %s (%d) column %d')
unknown_column ==
    /\ cs_pc = "init"
    /\ cs_idx < Len(colspec)
    /\ Col(colspec, cs_idx) \notin
         {TOKEN, GLOBAL_ENUM, LOCAL_ENUM, POS_TAG, SEGMENT_ID, ENTITY, EVENT,
          RELATION, GLOBAL_REF, LOCAL_REF, NORMALIZATION, ATTRIBUTE, _UNKNOWN}
    /\ Initialized(Raise(self, "ValueError:unknown"))

\* self.__init_events(colspec), after the loop
finish_init ==
    /\ cs_pc = "init"
    /\ cs_idx = Len(colspec)
    /\ LET r == init_events(self, colspec)
       IN  IF r.err = ""
           THEN /\ self' = r.obj /\ cs_pc' = "done" /\ UNCHANGED cs_err
           ELSE /\ cs_pc' = "error" /\ cs_err' = r.err /\ UNCHANGED self
    /\ UNCHANGED <<cs_headers, colspec, cs_idx, cs_str, notCsVars>>

\* str(ColumnSpecification.from_string(header))
to_str ==
    /\ cs_pc = "done"
    /\ cs_str' = str(self)
    /\ cs_pc' = "printed"
    /\ UNCHANGED <<cs_headers, colspec, cs_idx, cs_err, self, notCsVars>>

NextColspec ==
    \/ from_string
    \/ set_token
    \/ set_global_enum
    \/ set_local_enum
    \/ set_pos_tag
    \/ add_segment_id
    \/ add_entity
    \/ add_event
    \/ add_relation
    \/ add_global_ref
    \/ add_local_ref
    \/ add_normalization
    \/ add_attribute
    \/ ignore_unknown
    \/ unknown_column
    \/ finish_init
    \/ to_str

(***************************************************************************)
(* Claims about ColumnSpecification (checked under SpecColspec)            *)
(***************************************************************************)

\* construction returned an instance
Accepted == cs_pc \in {"done", "printed"}

\* the columns of the parsed header
Columns == 0..(Len(colspec) - 1)

IsReference(c) == Col(colspec, c) \in {LOCAL_REF, GLOBAL_REF}

\* C1: for every accepted header H, str(from_string(H)) reproduces H exactly,
\* column for column, NAME:N suffixes and _UNKNOWN columns included.
C1_StrReproducesHeader == cs_pc = "printed" => cs_str = cs_headers

\* C2: a RELATION column whose left neighbour is not a reference column (or
\* that has no left neighbour) makes construction fail, and when the check of
\* that column is what fails, it fails with the missing-reference error; so
\* every accepted specification has a reference column left of each RELATION.
C2_RelationHasReference ==
    \A r \in Columns :
        (Col(colspec, r) = RELATION /\ (r = 0 \/ ~IsReference(r - 1)))
        => /\ ~Accepted
           /\ (cs_pc = "error" /\ cs_idx = r /\ cs_err # "AssertionError")
                 => cs_err = "ValueError:has no reference"

\* the maximal contiguous run of reference columns ending at column e - 1,
\* left to right, the first column of the header included
RECURSIVE ReferenceRun(_)
ReferenceRun(e) ==
    IF e - 1 >= 0 /\ IsReference(e - 1)
    THEN ReferenceRun(e - 1) \o <<e - 1>> ELSE <<>>

\* __init_events raised
FailedInEvents == cs_pc = "error" /\ Len(colspec) > 1 /\ cs_idx = Len(colspec)

\* C3: an accepted EVENT column has a run of at least two references, its
\* trigger is the leftmost column of the run and its arguments are the rest
\* in order; event resolution fails only for an EVENT column whose run has
\* fewer than two columns, and then with the ValueError 'EVENT column N has
\* less than two references'.
C3_EventTriggerAndArguments ==
    /\ Accepted =>
         \A e \in Columns : Col(colspec, e) = EVENT =>
            /\ e \in DOMAIN self._events
            /\ Len(ReferenceRun(e)) >= 2
            /\ self._events[e] =
                 <<Head(ReferenceRun(e)), Tail(ReferenceRun(e))>>
    /\ FailedInEvents =>
         /\ cs_err = "ValueError:less than two references"
         /\ \E e \in Columns :
               Col(colspec, e) = EVENT /\ Len(ReferenceRun(e)) < 2

\* the dict that holds property column p
PropertyDict(p) ==
    IF Col(colspec, p) = NORMALIZATION
    THEN self._normalizations ELSE self._attributes

\* C4: in every accepted specification each NORMALIZATION and ATTRIBUTE
\* column p has one resolved target t < p whose type is POS_TAG, ENTITY,
\* RELATION or EVENT, and every column strictly between t and p is skippable.
C4_PropertyTarget ==
    Accepted =>
        \A p \in Columns : Col(colspec, p) \in {NORMALIZATION, ATTRIBUTE} =>
            /\ p \in DOMAIN PropertyDict(p)
            /\ (p \in DOMAIN self._normalizations)
                  # (p \in DOMAIN self._attributes)
            /\ LET t == PropertyDict(p)[p]
               IN  /\ t \in Columns
                   /\ t < p
                   /\ Col(colspec, t) \in {POS_TAG, ENTITY, RELATION, EVENT}
                   /\ \A c \in (t + 1)..(p - 1) :
                         Col(colspec, c) \in
                            {LOCAL_REF, GLOBAL_REF, ATTRIBUTE, NORMALIZATION,
                             EVENT, RELATION}

\* an accepted header with a property column that skipped a column to reach
\* its target, and one with a NORMALIZATION and an ATTRIBUTE column
C4_Witness ==
    /\ Accepted
    /\ \E p \in Columns :
          /\ Col(colspec, p) \in {NORMALIZATION, ATTRIBUTE}
          /\ PropertyDict(p)[p] < p - 1
    /\ \E p, q \in Columns :
          Col(colspec, p) = NORMALIZATION /\ Col(colspec, q) = ATTRIBUTE

\* the resolved target of a reference, relation or property column
ResolvedTarget(c) ==
    LET t == Col(colspec, c)
        d == IF t = RELATION THEN self._relations
             ELSE IF t = GLOBAL_REF THEN self._global_refs
             ELSE IF t = LOCAL_REF THEN self._local_refs
             ELSE IF t = NORMALIZATION THEN self._normalizations
             ELSE self._attributes
    IN  d[c]

\* C5: in an accepted header every reference, relation or property column
\* written NAME:N has the resolved target column N (index N - 1), with N in
\* 1..W and column N of type POS_TAG, ENTITY, RELATION or EVENT.
C5_SuffixIsTarget ==
    Accepted =>
        \A c \in Columns :
            (/\ HasSuffix(Col(cs_headers, c))
             /\ Col(colspec, c) \in
                  {LOCAL_REF, GLOBAL_REF, RELATION, NORMALIZATION, ATTRIBUTE})
            => LET N == SuffixValue(Col(cs_headers, c))
               IN  /\ N \in 1..Len(colspec)
                   /\ ResolvedTarget(c) = N - 1
                   /\ Col(colspec, N - 1) \in _PROPERTY_TARGET_COLUMNS

(***************************************************************************)
(* converter.py: the character offsets of the tokens.  A text and a token  *)
(* are sequences of characters; offsets are 0-based as in Python.          *)
(***************************************************************************)

\* text[a:b] for 0 <= a <= b <= len(text)
Slice(text, a, b) == SubSeq(text, a + 1, b)

\* the offsets at which token occurs in text at or after start
Occurrences(text, token, start) ==
    { i \in start..(Len(text) - Len(token)) :
        Slice(text, i, i + Len(token)) = token }

\* text.index(token, start) raises ValueError
NotFound(text, token, start) == Occurrences(text, token, start) = {}

\* a search that ignores start: text.index(token)
IndexFromZero(text, token, start) ==
    CHOOSE i \in Occurrences(text, token, 0) :
        \A j \in Occurrences(text, token, 0) : i <= j

\* text.index(token, start), when it returns
Index(text, token, start) ==
    CHOOSE i \in Occurrences(text, token, start) :
        \A j \in Occurrences(text, token, start) : i <= j

\* the longest text
MaxTextLen == 4

\* the most token rows of a file
MaxRows == 3

\* the characters of texts and tokens
Chars == {"a", "b"}

\* the tokens of the rows: the empty field of a tab-separated row, and the
\* strings of one and two characters that can repeat and overlap in a text
Tokens == {<<>>, <<"a">>, <<"b">>, <<"a", "b">>, <<"b", "a">>}

\* split a list of rows into segments: a row flagged TRUE is followed by an
\* empty line
RECURSIVE Segmented(_, _, _)
Segmented(rows, breaks, current) ==
    IF rows = <<>>
    THEN IF current = <<>> THEN <<>> ELSE <<current>>
    ELSE IF Head(breaks)
         THEN <<Append(current, Head(rows))>>
              \o Segmented(Tail(rows), Tail(breaks), <<>>)
         ELSE Segmented(Tail(rows), Tail(breaks), Append(current, Head(rows)))

InitOffsets ==
    /\ \E n \in 0..MaxTextLen : _text \in [1..n -> Chars]
    /\ \E n \in 1..MaxRows :
          \E rows \in [1..n -> Tokens] : \E breaks \in [1..n -> BOOLEAN] :
             off_segments = Segmented(rows, breaks, <<>>)
    /\ off_pc = "run"
    /\ off_seg = 0
    /\ off_row = 0
    /\ off_start = 0
    /\ off_offsets = <<>>
    /\ off_tokens = <<>>

\* the loop of _yield_offsets is at a row of the current segment
AtRow ==
    /\ off_pc = "run"
    /\ off_seg < Len(off_segments)
    /\ off_row < Len(Col(off_segments, off_seg))

\* token = row[c]
CurrentToken == Col(Col(off_segments, off_seg), off_row)

\* _yield_offsets: one row whose token is found
yield_offset ==
    /\ AtRow
    /\ ~NotFound(_text, CurrentToken, off_start)
    /\ LET update == Index(_text, CurrentToken, off_start)
           length == Len(CurrentToken)
       IN  /\ off_offsets' = Append(off_offsets, <<update, update + length>>)
           /\ off_tokens' = Append(off_tokens, CurrentToken)
           /\ off_start' = update + length
    /\ off_row' = off_row + 1
    /\ UNCHANGED <<_text, off_segments, off_pc, off_seg, notOffVars>>

\* _yield_offsets: except ValueError: raise ValueError('token ... not found')
token_not_found ==
    /\ AtRow
    /\ NotFound(_text, CurrentToken, off_start)
    /\ off_pc' = "error"
    /\ UNCHANGED <<_text, off_segments, off_seg, off_row, off_start,
                   off_offsets, off_tokens, notOffVars>>

\* _convert_tokens_and_entities returns offsets[-1][-1], which the loop of
\* _convert_local and _convert_with_globals hands to the next segment
next_segment ==
    /\ off_pc = "run"
    /\ off_seg < Len(off_segments)
    /\ off_row = Len(Col(off_segments, off_seg))
    /\ off_start' = PyIndex(PyIndex(off_offsets, 0 - 1), 0 - 1)
    /\ off_seg' = off_seg + 1
    /\ off_row' = 0
    /\ UNCHANGED <<_text, off_segments, off_pc, off_offsets, off_tokens,
                   notOffVars>>

\* the loop over the segments ends
offsets_done ==
    /\ off_pc = "run"
    /\ off_seg = Len(off_segments)
    /\ off_pc' = "done"
    /\ UNCHANGED <<_text, off_segments, off_seg, off_row, off_start,
                   off_offsets, off_tokens, notOffVars>>

NextOffsets ==
    \/ yield_offset
    \/ token_not_found
    \/ next_segment
    \/ offsets_done

\* the rows of the file in order
AllRows ==
    LET RECURSIVE Flat(_)
        Flat(segs) == IF segs = <<>> THEN <<>>
                      ELSE Head(segs) \o Flat(Tail(segs))
    IN  Flat(off_segments)

\* C6: the spans computed for the token rows, in row order across all
\* segments: text[start:end] is the row's token, end - start is the token's
\* length, and each span starts at or after the end of the previous span.
C6_TokenSpans ==
    /\ Len(off_offsets) <= Len(AllRows)
    /\ off_pc = "done" => Len(off_offsets) = Len(AllRows)
    /\ \A k \in 1..Len(off_offsets) :
          LET start == off_offsets[k][1]
              end == off_offsets[k][2]
          IN  /\ 0 <= start /\ start <= end /\ end <= Len(_text)
              /\ Slice(_text, start, end) = AllRows[k]
              /\ end - start = Len(AllRows[k])
              /\ k > 1 => start >= off_offsets[k - 1][2]

\* a converted file of two segments in which a token occurs a second time
\* and text is skipped before a token
C6_Witness ==
    /\ off_pc = "done"
    /\ Len(off_segments) >= 2
    /\ \E j, k \in 1..Len(off_offsets) :
          /\ j < k
          /\ AllRows[j] = AllRows[k]
          /\ AllRows[j] # <<>>
          /\ off_offsets[k][1] > off_offsets[k - 1][2]

(***************************************************************************)
(* reader.py: iterating an OtplReader.  A line is a sequence of            *)
(* characters; the separator /\s+/ splits at runs of white space.          *)
(***************************************************************************)

\* the white space characters among the characters of the model (printable
\* ASCII, tab, line feed, carriage return and form feed): what \s matches,
\* what str.strip() and int() remove at both ends of a string and what
\* str.split() splits at
Whitespace == {" ", "\t", "\n", "\r", "\f"}

\* SPACES.split(line): the fields between the runs of white space
RECURSIVE SplitFrom(_, _, _)
SplitFrom(line, field, after_space) ==
    IF line = <<>> THEN <<field>>
    ELSE IF Head(line) \in Whitespace
         THEN IF after_space
              THEN SplitFrom(Tail(line), field, TRUE)
              ELSE <<field>> \o SplitFrom(Tail(line), <<>>, TRUE)
         ELSE SplitFrom(Tail(line), Append(field, Head(line)), FALSE)

Split(line) == SplitFrom(line, <<>>, FALSE)

\* the filter regexes: the default of OtplReader.__init__, and a filter for
\* comment lines
Filters == {"^$", "^#"}

\* self._filter.search(line) is not None
FilterSearch(filter, line) ==
    IF filter = "^$" THEN line = <<>>
    ELSE line # <<>> /\ Head(line) = "#"

\* _extract_fields without the comparison: no row raises
extract_fields_unchecked(fields, column_count) == FALSE

\* OtplReader._extract_fields raises DataFormatError
extract_fields_raises(fields, column_count) ==
    column_count # 0 /\ column_count # Len(fields)

\* the most lines of a file
MaxLines == 5

\* the lines of the files: the empty line, rows of one to three fields
\* (with a space and a tab, and a form feed, between two of them), a row
\* with a leading empty field, and lines that start with '#'
Lines ==
    { <<>>, <<"a">>, <<"a", " ", "a">>, <<"a", " ", "\t", "a", "\f", "a">>,
      <<" ", "a">>, <<"#">>, <<"#", " ", "a">> }

InitReader ==
    /\ \E n \in 0..MaxLines : rd_lines \in [1..n -> Lines]
    /\ rd_filter \in Filters
    /\ rd_pc = "run"
    /\ rd_lno = 0
    /\ rd_column_count = 0
    /\ rd_segment = <<>>
    /\ rd_yielded = <<>>
    /\ rd_err = <<>>

\* the for loop of __iter__ has a next line
AtLine == rd_pc = "run" /\ rd_lno < Len(rd_lines)

\* line, of enumerate(self._open(), 1)
CurrentLine == rd_lines[rd_lno + 1]

\* _parse_line: the line is a row with the expected number of fields
parse_row ==
    /\ AtLine
    /\ CurrentLine # <<>>
    /\ ~FilterSearch(rd_filter, CurrentLine)
    /\ LET fields == Split(CurrentLine)
       IN  /\ ~extract_fields_raises(fields, rd_column_count)
           /\ rd_segment' = Append(rd_segment, fields)
           /\ rd_column_count' =
                IF rd_column_count = 0
                THEN Len(Append(rd_segment, fields)[1])
                ELSE rd_column_count
    /\ rd_lno' = rd_lno + 1
    /\ UNCHANGED <<rd_lines, rd_filter, rd_pc, rd_yielded, rd_err, notRdVars>>

\* _parse_line: the line matches the filter
skip_filtered ==
    /\ AtLine
    /\ CurrentLine # <<>>
    /\ FilterSearch(rd_filter, CurrentLine)
    /\ rd_lno' = rd_lno + 1
    /\ UNCHANGED <<rd_lines, rd_filter, rd_pc, rd_column_count, rd_segment,
                   rd_yielded, rd_err, notRdVars>>

\* _extract_fields: raise DataFormatError('line %d has %d columns, but
\* expected %d' % (lno, len(fields), column_count))
raise_data_format_error ==
    /\ AtLine
    /\ CurrentLine # <<>>
    /\ ~FilterSearch(rd_filter, CurrentLine)
    /\ extract_fields_raises(Split(CurrentLine), rd_column_count)
    /\ rd_err' = <<rd_lno + 1, Len(Split(CurrentLine)), rd_column_count>>
    /\ rd_pc' = "error"
    /\ rd_lno' = rd_lno + 1
    /\ UNCHANGED <<rd_lines, rd_filter, rd_column_count, rd_segment,
                   rd_yielded, notRdVars>>

\* elif segment: yield segment; segment = []
yield_segment ==
    /\ AtLine
    /\ CurrentLine = <<>>
    /\ rd_segment # <<>>
    /\ rd_yielded' = Append(rd_yielded, rd_segment)
    /\ rd_segment' = <<>>
    /\ rd_lno' = rd_lno + 1
    /\ UNCHANGED <<rd_lines, rd_filter, rd_pc, rd_column_count, rd_err,
                   notRdVars>>

\* an empty line while segment is empty
skip_empty ==
    /\ AtLine
    /\ CurrentLine = <<>>
    /\ rd_segment = <<>>
    /\ rd_lno' = rd_lno + 1
    /\ UNCHANGED <<rd_lines, rd_filter, rd_pc, rd_column_count, rd_segment,
                   rd_yielded, rd_err, notRdVars>>

\* the loop ends without looking at the pending segment
yield_pending_dropped(yielded, segment) == yielded

\* if segment: yield segment
yield_pending(yielded, segment) ==
    IF segment # <<>> THEN Append(yielded, segment) ELSE yielded

\* after the loop: if segment: yield segment
end_of_file ==
    /\ rd_pc = "run"
    /\ rd_lno = Len(rd_lines)
    /\ rd_yielded' = yield_pending(rd_yielded, rd_segment)
    /\ rd_pc' = "done"
    /\ UNCHANGED <<rd_lines, rd_filter, rd_lno, rd_column_count, rd_segment,
                   rd_err, notRdVars>>

NextReader ==
    \/ parse_row
    \/ skip_filtered
    \/ raise_data_format_error
    \/ yield_segment
    \/ skip_empty
    \/ end_of_file

(***************************************************************************)
(* reader.py: the column type guesser.  A field of a row is a sequence of  *)
(* characters.  A Guess instance is the record [guess, token_seen, err]:   *)
(* self.guess, self.__token_seen, and the exception a method raised ("" if *)
(* none).                                                                  *)
(***************************************************************************)

Digits == {"0", "1", "2", "3", "4", "5", "6", "7", "8", "9"}

\* the value of a decimal digit
DigitValue(c) ==
    CASE c = "0" -> 0 [] c = "1" -> 1 [] c = "2" -> 2 [] c = "3" -> 3
      [] c = "4" -> 4 [] c = "5" -> 5 [] c = "6" -> 6 [] c = "7" -> 7
      [] c = "8" -> 8 [] c = "9" -> 9

\* str.isdigit()
isdigit(v) == v # <<>> /\ \A i \in 1..Len(v) : v[i] \in Digits

\* int() ignores the white space at both ends of a string
RECURSIVE StripWhitespace(_)
StripWhitespace(v) ==
    IF v = <<>> THEN <<>>
    ELSE IF Head(v) \in Whitespace THEN StripWhitespace(Tail(v))
    ELSE IF v[Len(v)] \in Whitespace
    THEN StripWhitespace(SubSeq(v, 1, Len(v) - 1))
    ELSE v

\* the sign of the string given to int(), if it has one
Signs == {"+", "-"}

\* the string given to int() without its white space and its sign
Unsigned(v) ==
    LET s == StripWhitespace(v)
    IN  IF s # <<>> /\ Head(s) \in Signs THEN Tail(s) ELSE s

\* int(v) does not raise ValueError: v is, between white space and after an
\* optional sign, a string of digits with single underscores between them
is_int(v) ==
    LET d == Unsigned(v)
    IN  /\ d # <<>>
        /\ d[1] \in Digits
        /\ d[Len(d)] \in Digits
        /\ \A i \in 1..Len(d) :
              \/ d[i] \in Digits
              \/ d[i] = "_" /\ d[i - 1] \in Digits /\ d[i + 1] \in Digits

\* the value of a string of digits and underscores
RECURSIVE int_digits(_)
int_digits(d) ==
    IF d = <<>> THEN 0
    ELSE IF d[Len(d)] = "_" THEN int_digits(SubSeq(d, 1, Len(d) - 1))
    ELSE 10 * int_digits(SubSeq(d, 1, Len(d) - 1)) + DigitValue(d[Len(d)])

\* int(v) of a string with is_int(v); int of any other string raises
\* ValueError
int(v) ==
    IF StripWhitespace(v) # <<>> /\ Head(StripWhitespace(v)) = "-"
    THEN 0 - int_digits(Unsigned(v))
    ELSE int_digits(Unsigned(v))

\* str.startswith(pre)
startswith(v, pre) == Len(v) >= Len(pre) /\ SubSeq(v, 1, Len(pre)) = pre

\* the field u'NULL'
NULL == <<"N", "U", "L", "L">>

\* NORM.match(v) is not None, for NORM = ^(?:\S+:\S+|NULL)$; the $ matches
\* at the end of v and before a line feed that ends v
NORM_match(v) ==
    LET whole(w) ==
          \/ w = NULL
          \/ /\ \A i \in 1..Len(w) : w[i] \notin Whitespace
             /\ \E i \in 2..(Len(w) - 1) : w[i] = ":"
    IN  \/ whole(v)
        \/ v # <<>> /\ v[Len(v)] = "\n" /\ whole(SubSeq(v, 1, Len(v) - 1))

\* max(S) of a non-empty set of ints
Max(S) == CHOOSE x \in S : \A y \in S : y <= x

\* list[i] = val
SetCol(list, i, val) == [list EXCEPT ![i + 1] = val]

\* all(row[column].isdigit() for row in self._segment)
all_isdigit(segment, column) ==
    \A r \in 1..Len(segment) : isdigit(Col(segment[r], column))

\* [int(row[idx]) for row in self._segment] does not raise ValueError
all_int(segment, idx) ==
    \A r \in 1..Len(segment) : is_int(Col(segment[r], idx))

\* Guess._iter_columns: the columns whose guess is in choices, in order
iter_columns(guess, choices) ==
    Ascending({ idx \in 0..(Len(guess) - 1) : Col(guess, idx) \in choices })

\* Guess._guess_unique
_guess_unique(g, column, coltype) ==
    [g EXCEPT !.guess =
        [i \in 1..Len(@) |->
            IF i - 1 = column THEN coltype
            ELSE IF i - 1 < column /\ @[i] = coltype THEN _UNKNOWN
            ELSE @[i]]]

\* the loop of Guess._ensure_enum_columns over the lazily filtered columns,
\* and the assignment that follows it
RECURSIVE ensure_enum_loop(_, _, _, _, _)
ensure_enum_loop(guess, this_column, idx, global_set, this_coltype) ==
    IF idx >= Len(guess) THEN SetCol(guess, this_column, this_coltype)
    ELSE IF Col(guess, idx) \notin _ENUM_COLUMNS \/ idx = this_column
    THEN ensure_enum_loop(guess, this_column, idx + 1, global_set,
                          this_coltype)
    ELSE IF ~global_set
    THEN IF idx < this_column
         THEN ensure_enum_loop(SetCol(guess, idx, GLOBAL_ENUM), this_column,
                               idx + 1, TRUE, this_coltype)
         ELSE ensure_enum_loop(SetCol(guess, idx, LOCAL_ENUM), this_column,
                               idx + 1, TRUE, GLOBAL_ENUM)
    ELSE ensure_enum_loop(SetCol(guess, idx, _UNKNOWN), this_column,
                          idx + 1, TRUE, this_coltype)

\* Guess._ensure_enum_columns
_ensure_enum_columns(g, this_column) ==
    [g EXCEPT !.guess = ensure_enum_loop(@, this_column, 0, FALSE, LOCAL_ENUM)]

\* Guess._guess_id_or_token
_guess_id_or_token(g, segment, column) ==
    LET val == Col(segment[1], column)
    IN  IF (\A r \in 1..Len(segment) : Col(segment[r], column) = val)
           /\ Len(segment) > 1
        THEN [g EXCEPT !.guess = SetCol(@, column, SEGMENT_ID)]
        ELSE IF all_isdigit(segment, column)
        THEN IF column = 0
             THEN [g EXCEPT !.guess = SetCol(@, column, LOCAL_ENUM)]
             ELSE _ensure_enum_columns(g, column)
        ELSE [_guess_unique(g, column, TOKEN) EXCEPT !.token_seen = TRUE]

\* the for loop of Guess._guess_local_or_global_reference over enums, with
\* its else clause
RECURSIVE local_reference_loop(_, _, _, _, _)
local_reference_loop(g, segment, column, references, enums) ==
    IF enums = <<>>
    THEN [g EXCEPT !.guess = SetCol(@, column, LOCAL_REF)]
    ELSE LET idx == Head(enums)
         IN  IF ~all_int(segment, idx)
             THEN local_reference_loop(
                      [g EXCEPT !.guess = SetCol(@, idx, _UNKNOWN)],
                      segment, column, references, Tail(enums))
             ELSE IF references \subseteq
                        { int(Col(segment[r], idx)) : r \in 1..Len(segment) }
                  THEN [g EXCEPT !.guess = SetCol(@, column, LOCAL_REF)]
                  ELSE local_reference_loop(g, segment, column, references,
                                            Tail(enums))

\* Guess._guess_local_or_global_reference: max(references) raises ValueError
\* when references is empty
_guess_local_or_global_reference(g, segment, column) ==
    LET references ==
            { int(Col(segment[r], column)) :
                r \in { q \in 1..Len(segment) :
                          Col(segment[q], column) # <<"0">> } }
        enums == iter_columns(g.guess, {LOCAL_ENUM})
    IN  IF references = {}
        THEN [g EXCEPT !.err = "ValueError:max() arg is an empty sequence"]
        ELSE IF Max(references) > Len(segment)
        THEN [g EXCEPT !.guess = SetCol(@, column, GLOBAL_REF)]
        ELSE local_reference_loop(g, segment, column, references, enums)

\* Guess._guess_annotation_or_reference
_guess_annotation_or_reference(g, segment, column) ==
    IF all_isdigit(segment, column)
    THEN _guess_local_or_global_reference(g, segment, column)
    ELSE [g EXCEPT !.guess = SetCol(@, column, _ANNOTATION)]

\* Guess._ensure_reference
_ensure_reference(g, segment, column) ==
    IF all_isdigit(segment, column)
    THEN _guess_local_or_global_reference(g, segment, column)
    ELSE [g EXCEPT !.guess = SetCol(@, column, _UNKNOWN)]

\* Guess._analyze_column
_analyze_column(g, segment, column) ==
    IF Col(g.guess, column) = _UNKNOWN
    THEN IF ~g.token_seen
         THEN _guess_id_or_token(g, segment, column)
         ELSE _guess_annotation_or_reference(g, segment, column)
    ELSE IF Col(g.guess, column) \in {LOCAL_REF, GLOBAL_REF}
    THEN _ensure_reference(g, segment, column)
    ELSE g

\* the loop of Guess._analyze from column col; an exception ends it
RECURSIVE analyze_from(_, _, _)
analyze_from(g, segment, col) ==
    IF col >= Len(g.guess) \/ g.err # "" THEN g
    ELSE analyze_from(_analyze_column(g, segment, col), segment, col + 1)

\* Guess._analyze
_analyze(g, segment) ==
    analyze_from([g EXCEPT !.token_seen = FALSE], segment, 0)

\* Guess._has_a_tag_to_the_left: range(column - 1, 0, -1)
_has_a_tag_to_the_left(guess, column) ==
    \E idx \in 1..(column - 1) : Col(guess, idx) \in {POS_TAG, ENTITY}

\* matches_prefix of Guess._guess_tag_or_property
matches_prefix(val) ==
    \/ startswith(val, <<"B", "-">>)
    \/ startswith(val, <<"E", "-">>)
    \/ startswith(val, <<"I", "-">>)

\* Guess._guess_tag_or_property
_guess_tag_or_property(g, segment, column) ==
    LET vals == [r \in 1..Len(segment) |-> Col(segment[r], column)]
        tagged == _has_a_tag_to_the_left(g.guess, column)
        coltype ==
            IF tagged /\ \A r \in 1..Len(vals) :
                            vals[r] # NULL => NORM_match(vals[r])
            THEN NORMALIZATION
            ELSE IF \A r \in 1..Len(vals) :
                       matches_prefix(vals[r]) \/ vals[r] = <<"O">>
            THEN ENTITY
            ELSE IF tagged THEN ATTRIBUTE
            ELSE IF PyIndex(g.guess, column - 1) = TOKEN THEN POS_TAG
            ELSE _UNKNOWN
    IN  [g EXCEPT !.guess = SetCol(@, column, coltype)]

\* reader._disambiguate_event_or_relation
_disambiguate_event_or_relation(col, first_ref_col) ==
    IF col - first_ref_col > 1 THEN EVENT ELSE RELATION

\* the loop of Guess._guess_event_or_relation from column element; its
\* else branch reads Spec.VALUES, which ColumnSpecification does not have
RECURSIVE event_or_relation_loop(_, _, _)
event_or_relation_loop(g, column, element) ==
    IF element >= Len(g.guess) THEN g
    ELSE LET coltype == Col(g.guess, element)
         IN  IF coltype \in {LOCAL_REF, GLOBAL_REF}
             THEN event_or_relation_loop(g, column, element + 1)
             ELSE IF coltype \in {RELATION, EVENT, _UNKNOWN} THEN g
             ELSE IF coltype = _ANNOTATION
             THEN [g EXCEPT !.guess =
                     SetCol(@, element,
                            _disambiguate_event_or_relation(element, column))]
             ELSE [g EXCEPT !.err = "AttributeError:VALUES"]

\* Guess._guess_event_or_relation
_guess_event_or_relation(g, column) ==
    event_or_relation_loop(g, column, column + 1)

\* the loop of Guess._assign_annotation_types from column col: enumerate
\* reads self.guess[col] when it reaches col
RECURSIVE assign_from(_, _, _)
assign_from(g, segment, col) ==
    IF col >= Len(g.guess) \/ g.err # "" THEN g
    ELSE LET guess == Col(g.guess, col)
             next ==
                 IF guess = _ANNOTATION
                 THEN IF PyIndex(g.guess, col - 1) \notin
                            {_UNKNOWN, GLOBAL_REF, LOCAL_REF}
                      THEN _guess_tag_or_property(g, segment, col)
                      ELSE g
                 ELSE IF guess \in {LOCAL_REF, GLOBAL_REF}
                 THEN _guess_event_or_relation(g, col)
                 ELSE g
         IN  assign_from(next, segment, col + 1)

\* Guess._assign_annotation_types
_assign_annotation_types(g, segment) == assign_from(g, segment, 0)

\* Guess.update: _analyze, then _assign_annotation_types
update(g, segment) ==
    LET analyzed == _analyze(g, segment)
    IN  IF analyzed.err # "" THEN analyzed
        ELSE _assign_annotation_types(analyzed, segment)

\* Guess.__init__
NewGuess(segment) ==
    update([guess |-> [i \in 1..Len(segment[1]) |-> _UNKNOWN],
            token_seen |-> FALSE, err |-> ""], segment)

\* guess = None in _make_guess: `not guess` holds, as for no Guess instance
\* (len(guess) is guess.columns, at least one)
NoGuess == [guess |-> <<>>, token_seen |-> FALSE, err |-> ""]

\* Guess.complete
complete(g) == \A i \in 1..Len(g.guess) : g.guess[i] # _UNKNOWN

(***************************************************************************)
(* ColumnSpecification(colspec, headers) as one call, for the callers of   *)
(* from_string and from_integers in reader.py.                             *)
(***************************************************************************)

\* initialize[coltype](idx) of the loop of __init__
initialize(obj, headers, ints, col) ==
    LET coltype == Col(ints, col)
    IN  CASE coltype = TOKEN -> _set_column(obj, "_token", col)
          [] coltype = GLOBAL_ENUM -> _set_column(obj, "_global_enum", col)
          [] coltype = LOCAL_ENUM -> _set_column(obj, "_local_enum", col)
          [] coltype = POS_TAG -> _set_column(obj, "_pos_tag", col)
          [] coltype = SEGMENT_ID ->
                Ok([obj EXCEPT !._segment_ids = @ \cup {col}])
          [] coltype = ENTITY -> Ok([obj EXCEPT !._entities = @ \cup {col}])
          [] coltype = EVENT ->
                Ok([obj EXCEPT !._events =
                      IF col \in DOMAIN @ THEN @ ELSE DictSet(@, col, <<>>)])
          [] coltype = RELATION -> _add_relation(obj, headers, ints, col)
          [] coltype = GLOBAL_REF ->
                _add_reference(obj, "_global_refs", headers, ints, col)
          [] coltype = LOCAL_REF ->
                _add_reference(obj, "_local_refs", headers, ints, col)
          [] coltype = NORMALIZATION ->
                _add_property(obj, "_normalizations", ints, col)
          [] coltype = ATTRIBUTE -> _add_property(obj, "_attributes", ints, col)
          [] coltype = _UNKNOWN -> Ok(obj)
          [] OTHER -> Raise(obj, "ValueError:unknown")

\* the loop of __init__ from column idx
RECURSIVE init_from(_, _, _, _)
init_from(obj, headers, ints, idx) ==
    IF idx >= Len(ints) THEN Ok(obj)
    ELSE LET r == initialize(obj, headers, ints, idx)
         IN  IF r.err # "" THEN r ELSE init_from(r.obj, headers, ints, idx + 1)

\* ColumnSpecification.__init__
ColumnSpecification(ints, headers) ==
    IF ~(Len(ints) > 1) \/ ~(Len(ints) = Len(headers))
    THEN Raise(NewColumnSpecification(0), "AssertionError")
    ELSE LET r == init_from(NewColumnSpecification(Len(ints)), headers,
                            ints, 0)
         IN  IF r.err # "" THEN r ELSE init_events(r.obj, ints)

\* ColumnSpecification.from_integers
from_integers(ints) == ColumnSpecification(ints, to_string(ints))

(***************************************************************************)
(* reader.py: guess_colspec and _make_guess as a state machine over the    *)
(* segments the reader yields.                                             *)
(***************************************************************************)

\* the characters of the column type names
Spell ==
    [n \in DOMAIN NAMES |->
        CASE n = "_ANNOTATION" ->
                <<"_", "A", "N", "N", "O", "T", "A", "T", "I", "O", "N">>
          [] n = "_UNKNOWN" ->
                <<"_", "U", "N", "K", "N", "O", "W", "N">>
          [] n = "LOCAL_ENUM" ->
                <<"L", "O", "C", "A", "L", "_", "E", "N", "U", "M">>
          [] n = "GLOBAL_ENUM" ->
                <<"G", "L", "O", "B", "A", "L", "_", "E", "N", "U", "M">>
          [] n = "SEGMENT_ID" ->
                <<"S", "E", "G", "M", "E", "N", "T", "_", "I", "D">>
          [] n = "TOKEN" ->
                <<"T", "O", "K", "E", "N">>
          [] n = "POS_TAG" ->
                <<"P", "O", "S", "_", "T", "A", "G">>
          [] n = "ENTITY" ->
                <<"E", "N", "T", "I", "T", "Y">>
          [] n = "NORMALIZATION" ->
                <<"N", "O", "R", "M", "A", "L", "I", "Z", "A", "T", "I", "O", "N">>
          [] n = "RELATION" ->
                <<"R", "E", "L", "A", "T", "I", "O", "N">>
          [] n = "EVENT" ->
                <<"E", "V", "E", "N", "T">>
          [] n = "ATTRIBUTE" ->
                <<"A", "T", "T", "R", "I", "B", "U", "T", "E">>
          [] n = "LOCAL_REF" ->
                <<"L", "O", "C", "A", "L", "_", "R", "E", "F">>
          [] n = "GLOBAL_REF" ->
                <<"G", "L", "O", "B", "A", "L", "_", "R", "E", "F">>]

\* n.split(u':')[0], and the rest of n after the first colon
BeforeColon(field) ==
    LET colons == { i \in 1..Len(field) : field[i] = ":" }
    IN  IF colons = {} THEN field
        ELSE SubSeq(field, 1, (CHOOSE i \in colons :
                                  \A j \in colons : i <= j) - 1)

AfterColon(field) ==
    SubSeq(field, Len(BeforeColon(field)) + 2, Len(field))

\* n.split(u':')[0] in Spec.NAMES
IsName(field) == \E n \in DOMAIN NAMES : Spell[n] = BeforeColon(field)

\* one token of header.split(), for a field NAME or NAME:text
HeaderOf(field) ==
    LET name == CHOOSE n \in DOMAIN NAMES : Spell[n] = BeforeColon(field)
    IN  IF ~(Len(BeforeColon(field)) < Len(field))
        THEN HeaderToken(name, {})
        ELSE IF is_int(AfterColon(field))
        THEN HeaderToken(name, {int(AfterColon(field))})
        ELSE InvalidSuffixToken(name)

\* len(segment) == 1 and all(n.split(u':')[0] in Spec.NAMES ...)
IsHeaderSegment(segment) ==
    /\ Len(segment) = 1
    /\ \A i \in 1..Len(segment[1]) : IsName(segment[1][i])

\* Spec.from_string(' '.join(segment[0])) for a header segment
Spec_from_string(fields) ==
    LET headers == [i \in 1..Len(fields) |-> HeaderOf(fields[i])]
        parsed == parse_colspec(headers)
    IN  IF parsed.err # ""
        THEN [err |-> parsed.err, obj |-> NewColumnSpecification(0),
              ints |-> <<>>]
        ELSE LET r == ColumnSpecification(parsed.colspec, headers)
             IN  [err |-> r.err, obj |-> r.obj, ints |-> parsed.colspec]

\* isinstance(e, cls) for the exception classes of the reader
IsInstance(e, classes) ==
    \/ e \in classes
    \/ e = "UnicodeDecodeError" /\ "ValueError" \in classes
    \/ e \in {"FileNotFoundError", "IsADirectoryError"} /\ "IOError" \in classes

\* except (IOError, UnicodeDecodeError, DataFormatError) of guess_colspec
GuessCaught == {"IOError", "UnicodeDecodeError", "DataFormatError"}

\* the widest row, the most segments and the most rows of a segment of the
\* files of arbitrary fields
MaxGuessWidth == 2
MaxSegments == 2
MaxSegmentRows == 2

\* the fields of those files: the reference value 0, an integer that is an
\* enumeration or a reference within a segment, an integer beyond the rows
\* of a segment, and a string
GuessValues == {<<"0">>, <<"1">>, <<"3">>, <<"a">>}

\* the widest header segment
MaxHeaderWidth == 3

\* the fields of the header segments
HeaderFields ==
    { Spell["TOKEN"], Spell["POS_TAG"], Spell["ENTITY"], Spell["RELATION"],
      Spell["LOCAL_REF"], Spell["LOCAL_REF"] \o <<":", "2">>,
      Spell["LOCAL_REF"] \o <<":", "9">>, Spell["LOCAL_REF"] \o <<":">>,
      Spell["POS_TAG"] \o <<":", "x">> }

\* the most segments of a file in the canonical layout
MaxCanonicalSegments == 3

\* str(n) for 0 <= n <= 9
Str(n) == <<CHOOSE c \in Digits : DigitValue(c) = n>>

\* the local reference of a canonical row: 0 (no relation) or row 1
CanonicalLocalRefs == {0, 1}

\* the global and the local reference of the event of a canonical row:
\* none, the first row of the file, or the third row of the file
CanonicalEvents == {<<0, 0>>, <<1, 1>>, <<3, 1>>}

\* a row in the canonical layout: segment id, global enumeration, local
\* enumeration, token, PoS tag, BIO tag, ns:id, local reference, relation
\* name, global reference, local reference, event name, BIO tag, attribute
CanonicalRow(seg, glob, loc, lref, ev) ==
    << <<"s">> \o Str(seg), Str(glob), Str(loc),
       <<"t">> \o Str(glob), <<"p">> \o Str(glob),
       IF loc = 1 THEN <<"B", "-", "x">> ELSE <<"I", "-", "x">>,
       <<"n", ":">> \o Str(glob),
       Str(lref), IF lref = 0 THEN <<"n", "u", "l", "l">> ELSE <<"r">>,
       Str(ev[1]), Str(ev[2]),
       IF ev[1] = 0 THEN <<"n", "u", "l", "l">> ELSE <<"e">>,
       IF loc = 1 THEN <<"O">> ELSE <<"E", "-", "x">>,
       <<"v">> \o Str(glob) >>

\* the segments of a canonical file: params[s][r] is the pair (local
\* reference, event) of row r of segment s; done is the number of rows of
\* the segments before segment seg
RECURSIVE CanonicalSegments(_, _, _)
CanonicalSegments(params, seg, done) ==
    IF seg > Len(params) THEN <<>>
    ELSE << [r \in 1..Len(params[seg]) |->
               CanonicalRow(seg, done + r, r, params[seg][r][1],
                            params[seg][r][2])] >>
         \o CanonicalSegments(params, seg + 1, done + Len(params[seg]))

\* the exceptions iterating the reader can raise; AttributeError is the one
\* of a reader whose separator is undefined
ReaderRaises ==
    {"", "DataFormatError", "IOError", "UnicodeDecodeError", "AttributeError"}

\* a reader without a separator raises at its first row, before it has
\* yielded a segment
RaisesAfter(raises, n) == raises = "AttributeError" => n = 0

InitGuess ==
    /\ \/ \E w \in 1..MaxGuessWidth : \E n \in 0..MaxSegments :
          \E rows \in [1..n -> 1..MaxSegmentRows] :
             /\ g_segments \in
                  [1..n -> UNION { [1..r -> [1..w -> GuessValues]] :
                                     r \in 1..MaxSegmentRows }]
             /\ \A i \in 1..n : Len(g_segments[i]) = rows[i]
             /\ g_raises \in ReaderRaises
             /\ RaisesAfter(g_raises, n)
       \/ \E w \in 1..MaxHeaderWidth : \E header \in [1..w -> HeaderFields] :
             /\ g_segments = << <<header>> >>
             /\ g_raises = ""
       \/ \E n \in 1..MaxCanonicalSegments :
          \E rows \in [1..n -> 1..MaxSegmentRows] :
          \E params \in
               [1..n -> UNION { [1..r -> CanonicalLocalRefs \X CanonicalEvents] :
                                  r \in 1..MaxSegmentRows }] :
             /\ \A i \in 1..n : Len(params[i]) = rows[i]
             /\ g_segments = CanonicalSegments(params, 1, 0)
             /\ g_raises = ""
    /\ g_pc = "iterate"
    /\ g_idx = 0
    /\ g_guess = NoGuess
    /\ g_last_round = FALSE
    /\ g_err = ""
    /\ g_ints = <<>>
    /\ g_spec = NewColumnSpecification(0)

\* the for loop of _make_guess has a next segment
AtSegment == g_pc = "iterate" /\ g_idx < Len(g_segments)

\* segment, of enumerate(segments)
CurrentSegment == g_segments[g_idx + 1]

\* guess_colspec raises e
GuessRaises(e) ==
    /\ g_pc' = "raised"
    /\ g_err' = e
    /\ UNCHANGED <<g_segments, g_raises, g_idx, g_guess, g_last_round, g_ints,
                   g_spec, notGVars>>

\* guess_colspec returns the ColumnSpecification r.obj built from ints, or
\* raises what its construction raised
GuessBuilds(r, ints) ==
    IF r.err # "" THEN GuessRaises(r.err)
    ELSE /\ g_pc' = "returned"
         /\ g_ints' = ints
         /\ g_spec' = r.obj
         /\ UNCHANGED <<g_segments, g_raises, g_idx, g_guess, g_last_round,
                        g_err, notGVars>>

\* the end of the body of a for loop that breaks once idx > 3
EndOfRound_idx3(g) ==
    IF g.err # "" THEN GuessRaises(g.err)
    ELSE /\ g_guess' = g
         /\ IF g_idx > 3 \/ g_last_round
            THEN g_pc' = "build" /\ UNCHANGED g_last_round
            ELSE /\ g_last_round' = complete(g)
                 /\ UNCHANGED g_pc
         /\ g_idx' = g_idx + 1
         /\ UNCHANGED <<g_segments, g_raises, g_err, g_ints, g_spec,
                        notGVars>>

\* the end of the body of the for loop of _make_guess, with the Guess g
EndOfRound(g) ==
    IF g.err # "" THEN GuessRaises(g.err)
    ELSE /\ g_guess' = g
         /\ IF g_idx > 4 \/ g_last_round
            THEN g_pc' = "build" /\ UNCHANGED g_last_round
            ELSE /\ g_last_round' = complete(g)
                 /\ UNCHANGED g_pc
         /\ g_idx' = g_idx + 1
         /\ UNCHANGED <<g_segments, g_raises, g_err, g_ints, g_spec,
                        notGVars>>

\* _make_guess: the first segment is a header; guess_colspec returns the
\* ColumnSpecification of Spec.from_string
header_segment ==
    /\ AtSegment
    /\ Len(g_guess.guess) = 0
    /\ IsHeaderSegment(CurrentSegment)
    /\ LET r == Spec_from_string(CurrentSegment[1])
       IN  GuessBuilds(r, r.ints)

\* _make_guess: guess = Guess(segment)
first_segment ==
    /\ AtSegment
    /\ Len(g_guess.guess) = 0
    /\ ~IsHeaderSegment(CurrentSegment)
    /\ EndOfRound(NewGuess(CurrentSegment))

\* _make_guess: guess.update(segment)
update_segment ==
    /\ AtSegment
    /\ Len(g_guess.guess) # 0
    /\ EndOfRound(update(g_guess, CurrentSegment))

\* the reader raises while _make_guess iterates: guess_colspec catches
\* IOError, UnicodeDecodeError and DataFormatError, takes [] for the guess
\* and returns None
reader_raises ==
    /\ g_pc = "iterate"
    /\ g_idx = Len(g_segments)
    /\ g_raises # ""
    /\ IF IsInstance(g_raises, GuessCaught)
       THEN /\ g_pc' = "returned"
            /\ UNCHANGED <<g_segments, g_raises, g_idx, g_guess, g_last_round,
                           g_err, g_ints, g_spec, notGVars>>
       ELSE GuessRaises(g_raises)

\* the reader is exhausted: return guess.guess, an AttributeError when guess
\* is still None
reader_exhausted ==
    /\ g_pc = "iterate"
    /\ g_idx = Len(g_segments)
    /\ g_raises = ""
    /\ IF Len(g_guess.guess) = 0
       THEN GuessRaises("AttributeError:NoneType")
       ELSE /\ g_pc' = "build"
            /\ UNCHANGED <<g_segments, g_raises, g_idx, g_guess, g_last_round,
                           g_err, g_ints, g_spec, notGVars>>

\* guess_colspec with the list _make_guess returned: None for a list of less
\* than two columns, else Spec.from_integers(guess)
build_colspec ==
    /\ g_pc = "build"
    /\ IF Len(g_guess.guess) < 2
       THEN /\ g_pc' = "returned"
            /\ UNCHANGED <<g_segments, g_raises, g_idx, g_guess, g_last_round,
                           g_err, g_ints, g_spec, notGVars>>
       ELSE GuessBuilds(from_integers(g_guess.guess), g_guess.guess)

NextGuess ==
    \/ header_segment
    \/ first_segment
    \/ update_segment
    \/ reader_raises
    \/ reader_exhausted
    \/ build_colspec

(***************************************************************************)
(* reader.py: the rounds of _make_guess.  The files of many segments: each *)
(* segment is one row of five columns, three integers before the token.    *)
(* The third enumeration keeps a column UNKNOWN round after round, the     *)
(* last column is a reference in one row and a string in another, and in   *)
(* the third row the token is one column to the left.                      *)
(***************************************************************************)

\* the most segments of those files
MaxRoundSegments == 7

\* the segments of those files
RoundSegments ==
    { << <<<<"1">>, <<"1">>, <<"1">>, <<"a">>, <<"1">>>> >>,
      << <<<<"1">>, <<"1">>, <<"1">>, <<"a">>, <<"x">>>> >>,
      << <<<<"1">>, <<"1">>, <<"a">>, <<"x">>, <<"1">>>> >> }

\* the most segments of the files with a signed integer
MaxSignedSegments == 3

\* a segment whose local enumeration is the string '-1', which int() takes
\* and isdigit() does not
SignedSegments ==
    { << <<<<"1">>, <<"-", "1">>, <<"1">>, <<"a">>, <<"1">>>> >> }

\* a file of many segments, a short file with signed integers, a header
\* segment alone, or a short file the reader fails on
InitRounds ==
    /\ \/ \E n \in 0..MaxRoundSegments :
             /\ g_segments \in [1..n -> RoundSegments]
             /\ g_raises = ""
       \/ \E n \in 1..MaxSignedSegments :
             /\ g_segments \in [1..n -> RoundSegments \cup SignedSegments]
             /\ g_raises = ""
       \/ \E w \in 1..MaxHeaderWidth : \E header \in [1..w -> HeaderFields] :
             /\ g_segments = << <<header>> >>
             /\ g_raises = ""
       \/ \E n \in 0..1 :
             /\ g_segments \in [1..n -> RoundSegments]
             /\ g_raises \in ReaderRaises \ {""}
             /\ RaisesAfter(g_raises, n)
    /\ g_pc = "iterate"
    /\ g_idx = 0
    /\ g_guess = NoGuess
    /\ g_last_round = FALSE
    /\ g_err = ""
    /\ g_ints = <<>>
    /\ g_spec = NewColumnSpecification(0)

\* a step of the for loop of _make_guess: the round of segment g_idx
Round == g_pc = "iterate" /\ g_idx' = g_idx + 1

\* the for loop of _make_guess breaks at the end of round number rounds, or
\* at the end of the round after the one that left no column UNKNOWN, and
\* goes on to the next segment after every other round
StopsAfter(rounds) ==
    Round => (g_pc' = "build" <=> (g_idx + 1 = rounds \/ g_last_round))

\* last_round is set by the round that leaves no column UNKNOWN
LastRoundAfterComplete ==
    g_pc = "iterate" /\ g_idx > 0 => (g_last_round <=> complete(g_guess))

\* the segments read never exceed rounds
ReadsAtMost(rounds) == g_idx =< rounds

\* C27: the guesser stops after 6 rounds, or one round after the round in
\* which the guess first had no UNKNOWN column, whichever comes first, and
\* reads no segment beyond that
C27_StopsAfterSixRounds ==
    /\ [](LastRoundAfterComplete /\ ReadsAtMost(6))
    /\ [][StopsAfter(6)]_vars

\* C27: a file of seven segments whose guess keeps an UNKNOWN column: six
\* segments are read and the loop has ended
C27_Witness ==
    /\ g_pc = "build"
    /\ g_idx = 6
    /\ Len(g_segments) = 7
    /\ ~g_last_round
    /\ ~complete(g_guess)

\* C27: the guesser stops after 5 rounds, or one round after the round in
\* which the guess first had no UNKNOWN column, whichever comes first, and
\* reads no segment beyond that
C27_StopsAfterFiveRounds ==
    /\ [](LastRoundAfterComplete /\ ReadsAtMost(5))
    /\ [][StopsAfter(5)]_vars

\* the roles a column gets before the token only
PreTokenRoles == {SEGMENT_ID, GLOBAL_ENUM, LOCAL_ENUM, TOKEN}

\* column c is UNKNOWN before the round and lies right of column t, guessed
\* TOKEN in an earlier round
UnresolvedRightOfToken(t, c) ==
    /\ t < c
    /\ g_guess.guess[t] = TOKEN
    /\ g_guess.guess[c] = _UNKNOWN

\* a round classifies the UNKNOWN columns right of the TOKEN column in
\* post-token mode and leaves the TOKEN column TOKEN
PostTokenMode ==
    Round =>
        \A t, c \in 1..Len(g_guess.guess) :
            UnresolvedRightOfToken(t, c) =>
                /\ g_guess'.guess[c] \notin PreTokenRoles
                /\ g_guess'.guess[t] = TOKEN

\* C28: in every round, an UNKNOWN column to the right of the column guessed
\* TOKEN in an earlier round is not classified SEGMENT_ID, GLOBAL_ENUM,
\* LOCAL_ENUM or TOKEN, and the TOKEN column is not reset by it
C28_PostTokenModeOnly == [][PostTokenMode]_vars

\* the columns of the guess that have the role
ColumnsOf(role) == { i \in 1..Len(g_guess.guess) : g_guess.guess[i] = role }

\* the roles a guess holds at most once
UniqueRoles == {TOKEN, GLOBAL_ENUM, LOCAL_ENUM, POS_TAG}

\* C29: after every round the guess has at most one TOKEN, one GLOBAL_ENUM,
\* one LOCAL_ENUM and one POS_TAG column, and a GLOBAL_ENUM column lies left
\* of a LOCAL_ENUM column
C29_UniqueRoles ==
    /\ \A role \in UniqueRoles : Cardinality(ColumnsOf(role)) =< 1
    /\ \A g \in ColumnsOf(GLOBAL_ENUM) : \A l \in ColumnsOf(LOCAL_ENUM) : g < l

(***************************************************************************)
(* converter.py: otpl_to_brat, the loop over the input files.  An input    *)
(* file is the record of what each step of its conversion meets:           *)
(*   exists     exists(otpl_file)                                          *)
(*   read       the exception reading the OTPL file raises, "" if none     *)
(*   separator  detect_separator finds a separator in its lines            *)
(*   guess      what guess_colspec does with its segments: "Spec", "None"  *)
(*              or the exception it raises                                 *)
(*   text       the exception open(text_file).read() raises, "" if none    *)
(*   convert    the exception _convert_local / _convert_with_globals       *)
(*              raises on its segments, "" if none                         *)
(***************************************************************************)

InputFile(exists, read, separator, guessed, text, convert) ==
    [exists |-> exists, read |-> read, separator |-> separator,
     guess |-> guessed, text |-> text, convert |-> convert]

\* the input files of the batches
InputFiles ==
    { \* a file that converts
      InputFile(TRUE, "", TRUE, "Spec", "", ""),
      \* no OTPL file next to the text file
      InputFile(FALSE, "", TRUE, "Spec", "", ""),
      \* a token that is not in the text, or an unresolved reference
      InputFile(TRUE, "", TRUE, "Spec", "", "ValueError"),
      \* rows of different widths
      InputFile(TRUE, "", FALSE, "None", "", "DataFormatError"),
      \* a single column
      InputFile(TRUE, "", FALSE, "None", "", "IndexError"),
      \* an OTPL file that cannot be read
      InputFile(TRUE, "IOError", FALSE, "None", "", "IOError"),
      \* an OTPL file that is not UTF-8
      InputFile(TRUE, "UnicodeDecodeError", FALSE, "None", "",
                "UnicodeDecodeError"),
      \* a text file that cannot be read, or is not UTF-8
      InputFile(TRUE, "", TRUE, "Spec", "IOError", ""),
      InputFile(TRUE, "", TRUE, "Spec", "UnicodeDecodeError", ""),
      \* a column after the token that holds only 0, or a guess that
      \* ColumnSpecification rejects
      InputFile(TRUE, "", TRUE, "ValueError", "", ""),
      \* an OTPL file without rows
      InputFile(TRUE, "", FALSE, "AttributeError", "", ""),
      \* a brat file that cannot be written
      InputFile(TRUE, "", TRUE, "Spec", "", "IOError"),
      \* an entity whose B- and I- tags differ in their names
      InputFile(TRUE, "", TRUE, "Spec", "", "AssertionError") }

\* the most input files of a batch
MaxFiles == 3

\* reader.configure_reader returns a reader, returns None or raises:
\* _count_fields catches IOError and then has counted no fields
configure_reader(file, separator_set) ==
    IF separator_set THEN "reader"
    ELSE IF file.read # ""
    THEN IF IsInstance(file.read, {"IOError"}) THEN "None" ELSE file.read
    ELSE IF file.separator THEN "reader" ELSE "None"

\* reader.guess_colspec on the reader of file
guess_colspec(file) ==
    IF file.read # ""
    THEN IF IsInstance(file.read, GuessCaught) THEN "None" ELSE file.read
    ELSE file.guess

\* OtplBratConverter.convert returns "True" or "False", or raises: the text
\* file is read before the try statement, which catches ValueError and
\* DataFormatError
convert(file, colspec_set) ==
    IF ~colspec_set THEN "False"
    ELSE IF file.text # "" THEN file.text
    ELSE LET e == IF file.read # "" THEN file.read ELSE file.convert
         IN  IF e = "" THEN "True"
             ELSE IF IsInstance(e, {"ValueError", "DataFormatError"})
             THEN "False"
             ELSE e

\* the body of the for loop of otpl_to_brat for one input file: what it
\* ends with, and whether configuration.colspec is set after it
LoopBody(file, separator_set, colspec_set) ==
    IF ~file.exists
    THEN [end |-> "no OTPL file", colspec |-> colspec_set]
    ELSE LET segments == configure_reader(file, separator_set)
         IN  IF segments = "None"
             THEN [end |-> "no reader", colspec |-> colspec_set]
             ELSE IF segments # "reader"
             THEN [end |-> segments, colspec |-> colspec_set]
             ELSE LET guessed == IF colspec_set THEN "Spec"
                                 ELSE guess_colspec(file)
                  IN  IF guessed \notin {"Spec", "None"}
                      THEN [end |-> guessed, colspec |-> colspec_set]
                      ELSE [end |-> convert(file, guessed = "Spec"),
                            colspec |-> guessed = "Spec"]

\* the brat configuration file before the call: there, not there, or not
\* there and not to be created (its directory is missing)
ConfigFiles == {"exists", "", "IOError"}

InitBatch ==
    /\ \E n \in 1..MaxFiles : b_files \in [1..n -> InputFiles]
    /\ b_separator \in BOOLEAN
    /\ b_colspec \in BOOLEAN
    /\ b_pc = "loop"
    /\ b_i = 0
    /\ b_errors = 0
    /\ b_err = ""
    /\ b_converted = {}
    /\ b_config \in ConfigFiles

\* the for loop of otpl_to_brat has a next input file
AtFile == b_pc = "loop" /\ b_i < Len(b_files)

\* what the loop body does with that file
CurrentBody == LoopBody(b_files[b_i + 1], b_separator, b_colspec)

\* errors += 1, and on to the next file
CountError ==
    /\ b_errors' = b_errors + 1
    /\ b_i' = b_i + 1
    /\ b_colspec' = CurrentBody.colspec
    /\ UNCHANGED <<b_files, b_separator, b_pc, b_err, b_converted, b_config,
                   notBVars>>

\* else: L.error('could not locate OTPL file ...'); errors += 1
otpl_file_missing == AtFile /\ CurrentBody.end = "no OTPL file" /\ CountError

\* if segments is None: errors += 1; continue
reader_not_configured == AtFile /\ CurrentBody.end = "no reader" /\ CountError

\* if not converter.convert(...): errors += 1
conversion_failed == AtFile /\ CurrentBody.end = "False" /\ CountError

\* converter.convert(...) returned True
conversion_succeeded ==
    /\ AtFile
    /\ CurrentBody.end = "True"
    /\ b_converted' = b_converted \cup {b_i + 1}
    /\ b_i' = b_i + 1
    /\ b_colspec' = CurrentBody.colspec
    /\ UNCHANGED <<b_files, b_separator, b_pc, b_errors, b_err, b_config,
                   notBVars>>

\* configure_reader, guess_colspec or convert raised an exception that
\* nothing in otpl_to_brat catches; a colspec guessed before convert raised
\* stays in the configuration
loop_body_raises ==
    /\ AtFile
    /\ CurrentBody.end \notin {"no OTPL file", "no reader", "False", "True"}
    /\ b_pc' = "raised"
    /\ b_err' = CurrentBody.end
    /\ b_colspec' = CurrentBody.colspec
    /\ UNCHANGED <<b_files, b_separator, b_i, b_errors, b_converted,
                   b_config, notBVars>>

\* after the loop: without errors the brat configuration file is written
\* unless it exists, and open(file_path, 'wb') of write_config_file may
\* raise; then return errors
return_errors ==
    /\ b_pc = "loop"
    /\ b_i = Len(b_files)
    /\ IF b_errors = 0 /\ b_config \notin {"exists", ""}
       THEN /\ b_pc' = "raised"
            /\ b_err' = b_config
            /\ UNCHANGED b_config
       ELSE /\ b_pc' = "returned"
            /\ b_config' = IF b_errors = 0 THEN "exists" ELSE b_config
            /\ UNCHANGED b_err
    /\ UNCHANGED <<b_files, b_separator, b_colspec, b_i, b_errors,
                   b_converted, notBVars>>

NextBatch ==
    \/ otpl_file_missing
    \/ reader_not_configured
    \/ conversion_failed
    \/ conversion_succeeded
    \/ loop_body_raises
    \/ return_errors

(***************************************************************************)
(* Claims about otpl_to_brat (checked under SpecBatch)                     *)
(***************************************************************************)

\* C7: otpl_to_brat attempts every input file and returns the number of
\* files that failed: whatever fatal error a file meets, the call does not
\* raise, and when it returns every file has been taken and the error count
\* is the number of files whose conversion did not succeed.
C7_BatchCountsFailures ==
    /\ b_pc # "raised"
    /\ b_pc = "returned" =>
         /\ b_i = Len(b_files)
         /\ b_errors = Cardinality((1..Len(b_files)) \ b_converted)

(***************************************************************************)
(* Claims about guess_colspec (checked under SpecGuess)                    *)
(***************************************************************************)

\* C8: with a reader that has a separator, guess_colspec returns a
\* ColumnSpecification or None and raises no
\* exception, whatever the segments: none at all, a column that holds only
\* 0, a malformed header segment, or a guess that ColumnSpecification
\* rejects.
C8_GuessNeverRaises ==
    g_raises # "AttributeError" => g_pc # "raised" /\ g_err = ""

\* the role sequence of the canonical layout
CanonicalRoles ==
    << SEGMENT_ID, GLOBAL_ENUM, LOCAL_ENUM, TOKEN, POS_TAG, ENTITY,
       NORMALIZATION, LOCAL_REF, RELATION, GLOBAL_REF, LOCAL_REF, EVENT,
       ENTITY, ATTRIBUTE >>

\* the segments are rows in the canonical layout
Canonical ==
    g_segments # <<>> /\ Len(g_segments[1][1]) = Len(CanonicalRoles)

\* the specification parsed from the header of the canonical layout
CanonicalSpec ==
    Spec_from_string([i \in 1..Len(CanonicalRoles) |->
                         Spell[INTEGERS[CanonicalRoles[i]]]])

\* C9: for segments of rows in the canonical layout the guesser ends with
\* exactly the role sequence SEGMENT_ID GLOBAL_ENUM LOCAL_ENUM TOKEN POS_TAG
\* ENTITY NORMALIZATION LOCAL_REF RELATION GLOBAL_REF LOCAL_REF EVENT ENTITY
\* ATTRIBUTE, and guess_colspec returns the specification parsed from that
\* header.
C9_CanonicalGuess ==
    Canonical =>
        /\ g_pc # "raised"
        /\ g_pc \in {"build", "returned"} => g_guess.guess = CanonicalRoles
        /\ g_pc = "returned" =>
             /\ g_ints = CanonicalRoles
             /\ g_spec = CanonicalSpec.obj

(***************************************************************************)
(* Claims about OtplReader (checked under SpecReader)                      *)
(***************************************************************************)

\* the rows among the first n lines: the lines (numbered from 1) that are
\* not empty and do not match the filter
Rows(n) ==
    { l \in 1..n :
        rd_lines[l] # <<>> /\ ~FilterSearch(rd_filter, rd_lines[l]) }

\* the number of fields of line l
FieldCount(l) == Len(Split(rd_lines[l]))

\* the first row of the file
FirstRowOfFile ==
    CHOOSE l \in Rows(Len(rd_lines)) : \A k \in Rows(Len(rd_lines)) : l <= k

\* the first row of the segment of row l: no empty line lies between them
FirstRowOfSegment(l) ==
    LET same == { k \in Rows(l) : \A j \in k..l : rd_lines[j] # <<>> }
    IN  CHOOSE k \in same : \A j \in same : k <= j

\* C10 (amended): iterating an OtplReader raises DataFormatError, with the
\* line number, the observed and the expected field count, exactly when a
\* non-empty, non-filtered row has a field count different from the first
\* such row of the file, whatever segment the row is in; lines that match
\* the filter neither establish nor violate the expected count.
C10_RowCountOfFile ==
    /\ rd_pc = "error" =>
         LET l == rd_err[1]
         IN  /\ l \in Rows(Len(rd_lines))
             /\ rd_err[2] = FieldCount(l)
             /\ rd_err[3] = FieldCount(FirstRowOfFile)
             /\ rd_err[2] # rd_err[3]
             /\ \A k \in Rows(l - 1) : FieldCount(k) = rd_err[3]
    /\ rd_pc \in {"run", "done"} =>
         \A k \in Rows(rd_lno) : FieldCount(k) = FieldCount(FirstRowOfFile)
    /\ rd_pc = "done" => rd_lno = Len(rd_lines)

\* a DataFormatError for a row of a later segment than the first row, in a
\* file that starts with a filtered line of yet another field count
C10_Witness ==
    /\ rd_pc = "error"
    /\ \E f \in 1..(FirstRowOfFile - 1) :
          /\ FilterSearch(rd_filter, rd_lines[f])
          /\ FieldCount(f) # rd_err[3]
          /\ FieldCount(f) # rd_err[2]
    /\ FirstRowOfSegment(rd_err[1]) # FirstRowOfFile

\* C10: iterating an OtplReader raises DataFormatError exactly when a
\* non-empty, non-filtered row has a field count different from the first
\* row of its own segment; rows of different segments are not compared.
C10_RowCountOfSegment ==
    /\ rd_pc = "error" =>
         LET l == rd_err[1]
         IN  /\ l \in Rows(Len(rd_lines))
             /\ rd_err[2] = FieldCount(l)
             /\ rd_err[3] = FieldCount(FirstRowOfSegment(l))
             /\ rd_err[2] # rd_err[3]
    /\ rd_pc \in {"run", "done"} =>
         \A k \in Rows(rd_lno) :
            FieldCount(k) = FieldCount(FirstRowOfSegment(k))

\* the rows of the segments, in the order they were yielded
RECURSIVE Flatten(_)
Flatten(segs) ==
    IF segs = <<>> THEN <<>> ELSE Head(segs) \o Flatten(Tail(segs))

\* the segments the iteration has produced: those yielded, and until the
\* loop has ended the one being accumulated
SegmentsSoFar ==
    IF rd_pc # "done" /\ rd_segment # <<>>
    THEN Append(rd_yielded, rd_segment)
    ELSE rd_yielded

\* the lines the loop has consumed without raising
Consumed == IF rd_pc = "error" THEN rd_lno - 1 ELSE rd_lno

\* the index of the segment that holds the k-th row of the iteration
SegmentOfRow(segs, k) ==
    CHOOSE s \in 1..Len(segs) :
       /\ Len(Flatten(SubSeq(segs, 1, s - 1))) < k
       /\ k <= Len(Flatten(SubSeq(segs, 1, s)))

\* C11: iterating an OtplReader yields, in file order, the maximal runs of
\* rows between empty lines: every non-empty line that does not match the
\* filter is exactly one row of exactly one segment, no yielded segment is
\* empty, two successive rows are in one segment exactly when no empty line
\* lies between them (a filtered line does not end a segment), and at the
\* end of the file the pending segment has been yielded.
C11_SegmentsAreRuns ==
    LET lnos == Ascending(Rows(Consumed))
        segs == SegmentsSoFar
        flat == Flatten(segs)
    IN  /\ \A s \in 1..Len(rd_yielded) : rd_yielded[s] # <<>>
        /\ Len(flat) = Len(lnos)
        /\ \A k \in 1..Len(lnos) : flat[k] = Split(rd_lines[lnos[k]])
        /\ \A k \in 1..(Len(lnos) - 1) :
              (SegmentOfRow(segs, k) = SegmentOfRow(segs, k + 1))
                <=> (\A l \in lnos[k]..lnos[k + 1] : rd_lines[l] # <<>>)
        /\ rd_pc = "done" =>
              /\ rd_lno = Len(rd_lines)
              /\ Len(Flatten(rd_yielded)) = Cardinality(Rows(Len(rd_lines)))
        /\ (rd_pc = "run" /\ rd_lno > 0 /\ rd_lines[rd_lno] = <<>>) =>
              rd_segment = <<>>

\* a file read to its end: two empty lines in a row, a filtered line
\* between two rows of one segment, and a last segment without an empty
\* line after it
C11_Witness ==
    /\ rd_pc = "done"
    /\ rd_yielded # <<>>
    /\ rd_lines[Len(rd_lines)] # <<>>
    /\ \E l \in 1..(Len(rd_lines) - 1) :
          rd_lines[l] = <<>> /\ rd_lines[l + 1] = <<>>
    /\ \E l \in 2..(Len(rd_lines) - 1) :
          /\ rd_lines[l] # <<>>
          /\ FilterSearch(rd_filter, rd_lines[l])
          /\ l - 1 \in Rows(Len(rd_lines))
          /\ l + 1 \in Rows(Len(rd_lines))

(***************************************************************************)
(* brat.py: the annotation types, str() and from_string.  A string is a    *)
(* sequence of characters; an annotation is the record of its class and    *)
(* its instance attributes, vars(self).                                    *)
(***************************************************************************)

\* None, where a string is expected
None == <<"None">>

\* str.find(c): the offset of the first c in s, -1 if there is none
find(s, c) ==
    LET hits == { i \in 1..Len(s) : s[i] = c }
    IN  IF hits = {} THEN -1
        ELSE (CHOOSE i \in hits : \A j \in hits : i <= j) - 1

\* s cut at offset i into the parts before and after it; one part if i = -1
cut(s, i) ==
    IF i = -1 THEN <<s>> ELSE <<SubSeq(s, 1, i), SubSeq(s, i + 2, Len(s))>>

\* str.split(c, 1): one part if c is not in s, else the parts before and
\* after the first c
split_once(s, c) == cut(s, find(s, c))

\* str.split(c): the parts between every c, empty parts included
RECURSIVE split_at(_, _)
split_at(s, c) ==
    LET rest(parts) ==
          IF Len(parts) = 1 THEN parts
          ELSE <<parts[1]>> \o split_at(parts[2], c)
    IN  rest(split_once(s, c))

\* the parts that are not empty
RECURSIVE non_empty(_)
non_empty(parts) ==
    IF parts = <<>> THEN <<>>
    ELSE IF Head(parts) = <<>> THEN non_empty(Tail(parts))
    ELSE <<Head(parts)>> \o non_empty(Tail(parts))

\* str.split(): the parts between runs of white space, none of them empty
split_whitespace(s) ==
    non_empty(split_at([i \in 1..Len(s) |->
                          IF s[i] \in Whitespace THEN " " ELSE s[i]], " "))

\* c.join(parts)
RECURSIVE join(_, _)
join(c, parts) ==
    IF parts = <<>> THEN <<>>
    ELSE IF Len(parts) = 1 THEN parts[1]
    ELSE parts[1] \o <<c>> \o join(c, Tail(parts))

\* '%d' % n
RECURSIVE format_d(_)
format_d(n) ==
    LET digit(d) == CHOOSE c \in Digits : DigitValue(c) = d
    IN  IF n < 0 THEN <<"-">> \o format_d(0 - n)
        ELSE IF n < 10 THEN <<digit(n)>>
        ELSE format_d(n \div 10) \o <<digit(n % 10)>>

\* the printable characters in the order of their code points, 32 to 95
Printable ==
    <<" ", "!", "\"", "#", "$", "%", "&", "'", "(", ")", "*", "+",
      ",", "-", ".", "/", "0", "1", "2", "3", "4", "5", "6", "7",
      "8", "9", ":", ";", "<", "=", ">", "?", "@", "A", "B", "C",
      "D", "E", "F", "G", "H", "I", "J", "K", "L", "M", "N", "O",
      "P", "Q", "R", "S", "T", "U", "V", "W", "X", "Y", "Z", "[",
      "\\", "]", "^", "_">>

\* the lower case letters and what follows them, code points 97 to 126
LowerCase ==
    <<"a", "b", "c", "d", "e", "f", "g", "h", "i", "j", "k", "l",
      "m", "n", "o", "p", "q", "r", "s", "t", "u", "v", "w", "x",
      "y", "z", "{", "|", "}", "~">>

\* ord(c): the order of the characters of argument names, by code point
CodePoint(c) ==
    CASE c = "\t" -> 9 [] c = "\n" -> 10 [] c = "\f" -> 12 [] c = "\r" -> 13
      [] \E i \in 1..Len(Printable) : Printable[i] = c ->
           31 + (CHOOSE i \in 1..Len(Printable) : Printable[i] = c)
      [] \E i \in 1..Len(LowerCase) : LowerCase[i] = c ->
           96 + (CHOOSE i \in 1..Len(LowerCase) : LowerCase[i] = c)

\* a < b for two strings
RECURSIVE StrLess(_, _)
StrLess(a, b) ==
    IF b = <<>> THEN FALSE
    ELSE IF a = <<>> THEN TRUE
    ELSE IF Head(a) # Head(b) THEN CodePoint(Head(a)) < CodePoint(Head(b))
    ELSE StrLess(Tail(a), Tail(b))

\* sorted(keys)
RECURSIVE sorted(_)
sorted(keys) ==
    LET rest(m) == <<m>> \o sorted(keys \ {m})
    IN  IF keys = {} THEN <<>>
        ELSE rest(CHOOSE x \in keys : \A y \in keys \ {x} : StrLess(x, y))

\* _Annotation._parse: uid, name, rest
Annotation_parse(line) ==
    LET name_rest(uid, b) ==
          IF Len(b) # 2 THEN Raise(<<>>, "ValueError")
          ELSE Ok(<<uid, b[1], b[2]>>)
        uid_rest(a) ==
          IF Len(a) # 2 THEN Raise(<<>>, "ValueError")
          ELSE name_rest(a[1], split_once(a[2], " "))
    IN  uid_rest(split_once(line, "\t"))

\* _Text._parse: uid, name, rest, text
Text_parse(line) ==
    LET rest_text(p, c) ==
          IF Len(c) # 2 THEN Raise(<<>>, "ValueError")
          ELSE Ok(<<p[1], p[2], c[1], c[2]>>)
        parsed(p) ==
          IF p.err # "" THEN p ELSE rest_text(p.obj, split_once(p.obj[3], "\t"))
    IN  parsed(Annotation_parse(line))

\* _Association._parse: uid, name, tuple(rest.split(' '))
Association_parse(line) ==
    LET parsed(p) ==
          IF p.err # "" THEN p
          ELSE Ok(<<p.obj[1], p.obj[2], split_at(p.obj[3], " ")>>)
    IN  parsed(Annotation_parse(line))

\* _Association._args_str
args_str(args) ==
    LET items(keys) ==
          join(" ", [i \in 1..Len(keys) |->
                       keys[i] \o <<":">> \o args[keys[i]]])
    IN  items(sorted(DOMAIN args))

\* Entity.__init__, start and end given as integers
Entity(uid, name, start, end, text) ==
    IF Len(text) # end - start THEN Raise(<<>>, "AssertionError")
    ELSE Ok([cls |-> "Entity", uid |-> uid, name |-> name, text |-> text,
             start |-> start, end |-> end])

\* Entity.from_string
Entity_from_string(line) ==
    LET offsets(p, offset) ==
          IF Len(offset) # 2 THEN Raise(<<>>, "ValueError")
          ELSE IF ~is_int(offset[1]) \/ ~is_int(offset[2])
          THEN Raise(<<>>, "ValueError")
          ELSE Entity(p[1], p[2], int(offset[1]), int(offset[2]), p[4])
        parsed(p) ==
          IF p.err # "" THEN p ELSE offsets(p.obj, split_once(p.obj[3], " "))
    IN  parsed(Text_parse(line))

\* Entity.__str__
Entity_str(x) ==
    x.uid \o <<"\t">> \o x.name \o <<" ">> \o format_d(x.start) \o <<" ">>
    \o format_d(x.end) \o <<"\t">> \o x.text

Reference == <<"R", "e", "f", "e", "r", "e", "n", "c", "e">>

\* Normalization.__init__
Normalization(uid, target, db, xref, text) ==
    Ok([cls |-> "Normalization", uid |-> uid, name |-> Reference,
        text |-> IF text # None /\ text # <<>> THEN text ELSE xref,
        db |-> db, xref |-> xref, target |-> target])

\* Normalization.from_string
Normalization_from_string(line) ==
    LET db_xref(p, target, parts) ==
          IF Len(parts) # 2 THEN Raise(<<>>, "ValueError")
          ELSE Normalization(p[1], target, parts[1], parts[2], p[4])
        target_ref(p, parts) ==
          IF Len(parts) # 2 THEN Raise(<<>>, "ValueError")
          ELSE db_xref(p, parts[1], split_once(parts[2], ":"))
        parsed(p) ==
          IF p.err # "" THEN p
          ELSE IF p.obj[2] # Reference THEN Raise(<<>>, "ValueError")
          ELSE target_ref(p.obj, split_once(p.obj[3], " "))
    IN  parsed(Text_parse(line))

\* Normalization.__str__
Normalization_str(x) ==
    x.uid \o <<"\t">> \o Reference \o <<" ">> \o x.target \o <<" ">>
    \o x.db \o <<":">> \o x.xref \o <<"\t">> \o x.text

\* Note.__init__
Note(uid, name, target, text) ==
    Ok([cls |-> "Note", uid |-> uid, name |-> name, text |-> text,
        target |-> target])

\* Note.from_string
Note_from_string(line) ==
    LET parsed(p) ==
          IF p.err # "" THEN p
          ELSE Note(p.obj[1], p.obj[2], p.obj[3], p.obj[4])
    IN  parsed(Text_parse(line))

\* Note.__str__
Note_str(x) ==
    x.uid \o <<"\t">> \o x.name \o <<" ">> \o x.target \o <<"\t">> \o x.text

Arg1 == <<"A", "r", "g", "1">>
Arg2 == <<"A", "r", "g", "2">>

\* target[target.find(':') + 1:]
strip_prefix(target) == SubSeq(target, find(target, ":") + 2, Len(target))

\* Relation.__init__
Relation(uid, name, target1, target2) ==
    Ok([cls |-> "Relation", uid |-> uid, name |-> name,
        args |-> [k \in {Arg1, Arg2} |->
                    IF k = Arg1 THEN strip_prefix(target1)
                    ELSE strip_prefix(target2)]])

\* Relation.from_string
Relation_from_string(line) ==
    LET parsed(p) ==
          IF p.err # "" THEN p
          ELSE IF Len(p.obj[3]) # 2 THEN Raise(<<>>, "ValueError")
          ELSE Relation(p.obj[1], p.obj[2], p.obj[3][1], p.obj[3][2])
    IN  parsed(Association_parse(line))

\* Relation.__str__
Relation_str(x) == x.uid \o <<"\t">> \o x.name \o <<" ">> \o args_str(x.args)

\* the keyword arguments that are parameters of Event.__init__
EventParameters ==
    { <<"s", "e", "l", "f">>, <<"u", "i", "d">>, <<"n", "a", "m", "e">>,
      <<"t", "r", "i", "g", "g", "e", "r">> }

\* Event.__init__ and _Association.__init__ with the keyword arguments
\* args: a keyword that is a parameter is a TypeError; a lone keyword
\* 'args' is taken for the dict itself, and dict() of its string is empty
\* for the empty string and a ValueError for any other
Event(uid, name, trigger, args) ==
    IF DOMAIN args \cap EventParameters # {}
    THEN Raise(<<>>, "TypeError")
    ELSE IF DOMAIN args = {<<"a", "r", "g", "s">>}
    THEN IF args[<<"a", "r", "g", "s">>] = <<>>
         THEN Ok([cls |-> "Event", uid |-> uid, name |-> name,
                  args |-> <<>>, trigger |-> trigger])
         ELSE Raise(<<>>, "ValueError")
    ELSE Ok([cls |-> "Event", uid |-> uid, name |-> name, args |-> args,
             trigger |-> trigger])

\* dict(pairs): a later pair replaces an earlier one of the same key
dict(pairs) ==
    [k \in { pairs[i][1] : i \in 1..Len(pairs) } |->
       pairs[CHOOSE i \in 1..Len(pairs) :
               /\ pairs[i][1] = k
               /\ \A j \in 1..Len(pairs) : pairs[j][1] = k => j <= i][2]]

\* Event.from_string: dict(a_t.split(':') for a_t in args) raises ValueError
\* for an element that is not a pair
Event_from_string(line) ==
    LET arguments(p, named_trigger, pairs) ==
          IF \E i \in 1..Len(pairs) : Len(pairs[i]) # 2
          THEN Raise(<<>>, "ValueError")
          ELSE Event(p[1], named_trigger[1], named_trigger[2], dict(pairs))
        trigger(p, named_trigger) ==
          IF Len(named_trigger) # 2 THEN Raise(<<>>, "ValueError")
          ELSE arguments(p, named_trigger,
                         [i \in 1..Len(p[3]) |-> split_at(p[3][i], ":")])
        parsed(p) ==
          IF p.err # "" THEN p ELSE trigger(p.obj, split_once(p.obj[2], ":"))
    IN  parsed(Association_parse(line))

\* Event.__str__
Event_str(x) ==
    x.uid \o <<"\t">> \o x.name \o <<":">> \o x.trigger \o <<" ">>
    \o args_str(x.args)

\* Equiv.__init__
Equiv(uid, name, targets) ==
    Ok([cls |-> "Equiv", uid |-> uid, name |-> name, targets |-> targets])

\* Equiv.from_string
Equiv_from_string(line) ==
    LET parsed(p) ==
          IF p.err # "" THEN p
          ELSE Equiv(p.obj[1], p.obj[2], split_whitespace(p.obj[3]))
    IN  parsed(Annotation_parse(line))

\* Equiv.__str__
Equiv_str(x) ==
    x.uid \o <<"\t">> \o x.name \o <<" ">> \o join(" ", x.targets)

\* Attribute.__init__
Attribute(uid, name, target, modifier) ==
    Ok([cls |-> "Attribute", uid |-> uid, name |-> name, target |-> target,
        modifier |-> modifier])

\* Attribute.from_string
Attribute_from_string(line) ==
    LET modifier(p, parts) ==
          IF Len(parts) = 2 THEN Attribute(p[1], p[2], parts[1], parts[2])
          ELSE Attribute(p[1], p[2], p[3], None)
        parsed(p) ==
          IF p.err # "" THEN p ELSE modifier(p.obj, split_once(p.obj[3], " "))
    IN  parsed(Annotation_parse(line))

\* Attribute.__str__
Attribute_str(x) ==
    x.uid \o <<"\t">> \o x.name \o <<" ">> \o x.target
    \o (IF x.modifier # None /\ x.modifier # <<>>
        THEN <<" ">> \o x.modifier ELSE <<>>)

\* cls.from_string(line)
brat_from_string(cls, line) ==
    CASE cls = "Entity" -> Entity_from_string(line)
      [] cls = "Normalization" -> Normalization_from_string(line)
      [] cls = "Note" -> Note_from_string(line)
      [] cls = "Relation" -> Relation_from_string(line)
      [] cls = "Event" -> Event_from_string(line)
      [] cls = "Equiv" -> Equiv_from_string(line)
      [] cls = "Attribute" -> Attribute_from_string(line)

\* str(x)
brat_str(x) ==
    CASE x.cls = "Entity" -> Entity_str(x)
      [] x.cls = "Normalization" -> Normalization_str(x)
      [] x.cls = "Note" -> Note_str(x)
      [] x.cls = "Relation" -> Relation_str(x)
      [] x.cls = "Event" -> Event_str(x)
      [] x.cls = "Equiv" -> Equiv_str(x)
      [] x.cls = "Attribute" -> Attribute_str(x)

\* x == y: isinstance(other, cls) and vars(self) == vars(other)
Equal(x, y) == x.cls = y.cls /\ x = y

\* the values of the constructor arguments
ID == <<"I", "D">>
T1 == <<"T", "1">>
T2 == <<"T", "2">>
a_name == <<"n">>
Targets == {T1, T2}
Texts == {<<>>, <<"a">>, <<"a", " ", "b">>, <<"a", "\t">>}
PrefixedTargets == {T1, T2, Arg1 \o <<":">> \o T2, <<"x", ":">> \o T1}
Modifiers == {None, <<>>, <<"m">>, <<" ", "m">>}
Xrefs == {<<"x">>, <<"x", ":", "y">>}

\* the largest offset of an entity
MaxOffset == 11

\* the most targets of an Equiv
MaxTargets == 2

\* the annotations constructed: the result of each class's __init__
Constructed ==
    { Entity(ID, a_name, s, e, t) :
        s \in {0, 9}, e \in 0..MaxOffset, t \in Texts }
    \cup { Normalization(ID, T1, <<"d">>, x, t) :
             x \in Xrefs, t \in Texts \cup {None} }
    \cup { Note(ID, a_name, T1, t) : t \in Texts }
    \cup { Relation(ID, a_name, a, b) :
             a \in PrefixedTargets, b \in PrefixedTargets }
    \cup { Event(ID, a_name, T1, args) :
             args \in UNION { [keys -> Targets] : keys \in SUBSET {Arg1, Arg2} } }
    \cup { Equiv(ID, a_name, targets) :
             targets \in UNION { [1..n -> Targets] : n \in 0..MaxTargets } }
    \cup { Attribute(ID, a_name, T1, m) : m \in Modifiers }

\* lines of an annotation file, with the class that parses them: a relation
\* without argument names and one with the arguments swapped, an entity
\* with zero-padded offsets, an event with unsorted, repeated and missing
\* arguments, events whose one argument is named args or uid, entities
\* with offsets that int() accepts with a sign, white space or an
\* underscore and one it rejects, a normalization without text, Equivs
\* with two spaces, a form feed and line ends between and after the
\* targets, an attribute with a trailing space, and a line without a tab
ParsedLines ==
    { <<"Relation", ID \o <<"\t">> \o a_name \o <<" ">> \o T1 \o <<" ">> \o T2>>,
      <<"Relation", ID \o <<"\t">> \o a_name \o <<" ">> \o Arg2 \o <<":">> \o T1
                       \o <<" ">> \o Arg1 \o <<":">> \o T2>>,
      <<"Entity", ID \o <<"\t">> \o a_name \o <<" ", "0", "0", " ", "0", "1", "\t", "a">>>>,
      <<"Event", ID \o <<"\t">> \o a_name \o <<":">> \o T1 \o <<" ">> \o Arg2
                    \o <<":">> \o T1 \o <<" ">> \o Arg1 \o <<":">> \o T2>>,
      <<"Event", ID \o <<"\t">> \o a_name \o <<":">> \o T1 \o <<" ">> \o Arg1
                    \o <<":">> \o T1 \o <<" ">> \o Arg1 \o <<":">> \o T2>>,
      <<"Event", ID \o <<"\t">> \o a_name \o <<":">> \o T1>>,
      <<"Event", ID \o <<"\t">> \o a_name \o <<":">> \o T1
                    \o <<" ", "a", "r", "g", "s", ":">> \o T1>>,
      <<"Event", ID \o <<"\t">> \o a_name \o <<":">> \o T1
                    \o <<" ", "a", "r", "g", "s", ":">>>>,
      <<"Event", ID \o <<"\t">> \o a_name \o <<":">> \o T1
                    \o <<" ", "u", "i", "d", ":">> \o T1>>,
      <<"Entity", ID \o <<"\t">> \o a_name \o <<" ", "+", "0", " ", "1", "\t", "a">>>>,
      <<"Entity", ID \o <<"\t">> \o a_name \o <<" ", "-", "1", " ", "0", "\t", "a">>>>,
      <<"Entity", ID \o <<"\t">> \o a_name \o <<" ", "0", " ", " ", "1", "\t", "a">>>>,
      <<"Entity", ID \o <<"\t">> \o a_name
                     \o <<" ", "0", " ", "1", "_", "0", "\t", "a", "a", "a",
                          "a", "a", "a", "a", "a", "a", "a">>>>,
      <<"Entity", ID \o <<"\t">> \o a_name \o <<" ", "0", " ", "x", "\t", "a">>>>,
      <<"Normalization", ID \o <<"\t">> \o Reference \o <<" ">> \o T1
                            \o <<" ", "d", ":", "x", "\t">>>>,
      <<"Equiv", ID \o <<"\t">> \o a_name \o <<" ">> \o T1 \o <<" ", " ">> \o T2>>,
      <<"Equiv", ID \o <<"\t">> \o a_name \o <<" ">> \o T1 \o <<"\f">> \o T2>>,
      <<"Equiv", ID \o <<"\t">> \o a_name \o <<" ">> \o T1 \o <<"\n">> \o T2
                    \o <<"\r">>>>,
      <<"Attribute", ID \o <<"\t">> \o a_name \o <<" ">> \o T1 \o <<" ">>>>,
      <<"Note", ID \o <<" ">> \o a_name>> }

\* the lines parsed: those above, and the serialization of every annotation
Parsed ==
    ParsedLines \cup { <<c.obj.cls, brat_str(c.obj)>> : c \in { k \in Constructed : k.err = "" } }

InitCodec ==
    /\ \/ /\ br_pc = "construct"
          /\ br_x \in Constructed
          /\ br_line = <<>>
       \/ /\ br_pc = "read"
          /\ \E p \in Parsed :
                /\ br_x = [err |-> "", obj |-> [cls |-> p[1]]]
                /\ br_line = p[2]
    /\ br_y = Ok(<<>>)
    /\ br_out = <<>>

\* __init__ raises: the annotation is not constructed
construct_raises ==
    /\ br_pc = "construct"
    /\ br_x.err # ""
    /\ br_pc' = "not constructed"
    /\ UNCHANGED <<br_x, br_line, br_y, br_out, notBrVars>>

\* line = str(x)
serialize ==
    /\ br_pc = "construct"
    /\ br_x.err = ""
    /\ br_line' = brat_str(br_x.obj)
    /\ br_pc' = "serialized"
    /\ UNCHANGED <<br_x, br_y, br_out, notBrVars>>

\* y = type(x).from_string(line) returns
parse_back ==
    /\ br_pc = "serialized"
    /\ br_y' = brat_from_string(br_x.obj.cls, br_line)
    /\ br_y'.err = ""
    /\ br_pc' = "parsed back"
    /\ UNCHANGED <<br_x, br_line, br_out, notBrVars>>

\* y = type(x).from_string(line) raises
parse_back_raises ==
    /\ br_pc = "serialized"
    /\ br_y' = brat_from_string(br_x.obj.cls, br_line)
    /\ br_y'.err # ""
    /\ br_pc' = "raised"
    /\ UNCHANGED <<br_x, br_line, br_out, notBrVars>>

\* from_string accepts a line of a file
parse_line ==
    /\ br_pc = "read"
    /\ br_y' = brat_from_string(br_x.obj.cls, br_line)
    /\ br_y'.err = ""
    /\ br_pc' = "accepted"
    /\ UNCHANGED <<br_x, br_line, br_out, notBrVars>>

\* from_string raises for a line of a file
reject_line ==
    /\ br_pc = "read"
    /\ br_y' = brat_from_string(br_x.obj.cls, br_line)
    /\ br_y'.err # ""
    /\ br_pc' = "rejected"
    /\ UNCHANGED <<br_x, br_line, br_out, notBrVars>>

\* out = str(from_string(line))
serialize_parsed ==
    /\ br_pc = "accepted"
    /\ br_out' = brat_str(br_y.obj)
    /\ br_pc' = "written"
    /\ UNCHANGED <<br_x, br_line, br_y, notBrVars>>

NextCodec ==
    \/ construct_raises
    \/ serialize
    \/ parse_back
    \/ parse_back_raises
    \/ parse_line
    \/ reject_line
    \/ serialize_parsed

\* C12: for every annotation x that is constructed (Entity, Relation, Event
\* with two, one or no arguments, Normalization, Attribute with or without
\* modifier, Note, Equiv), from_string(str(x)) returns an annotation equal
\* to x; and for every line s that from_string accepts, str(from_string(s))
\* is s.
C12_CodecRoundTrip ==
    /\ br_pc # "raised"
    /\ br_pc = "parsed back" => Equal(br_y.obj, br_x.obj)
    /\ br_pc = "written" => br_out = br_line

(***************************************************************************)
(* extractor.py: segment_otpl_file.  An output file is the sequence of the *)
(* lines print() wrote to it; the file "%s-%i%s" of segment id i is        *)
(* ex_files[i + 1].                                                         *)
(***************************************************************************)

\* str.strip(): without the white space at both ends
RECURSIVE strip(_)
strip(raw) ==
    IF raw = <<>> THEN <<>>
    ELSE IF Head(raw) \in Whitespace THEN strip(Tail(raw))
    ELSE IF raw[Len(raw)] \in Whitespace
    THEN strip(SubSeq(raw, 1, Len(raw) - 1))
    ELSE raw

\* the most lines of the OTPL file
MaxInputLines == 5

\* the largest split factor
MaxFactor == 2

\* the lines of the OTPL file, without their line ends: the empty line, two
\* rows, a line of a space, a line of a form feed, and a row between a
\* space and a form feed
InputLines == {<<>>, <<"a">>, <<"b">>, <<" ">>, <<"\f">>, <<" ", "a", "\f">>}

\* the call: after the first _new_segment_file and append
InitSegmenter ==
    /\ \E n \in 0..MaxInputLines : ex_lines \in [1..n -> InputLines]
    /\ ex_factor \in 1..MaxFactor
    /\ ex_pc = "loop"
    /\ ex_i = 0
    /\ ex_segment_count = 0
    /\ ex_files = <<<<>>>>
    /\ ex_names = <<0>>
    /\ ex_exists = {0}

\* line, of the for loop over in_stream
NextInputLine == strip(ex_lines[ex_i + 1])

\* an empty line that does not fill the output file
print_empty_line ==
    /\ ex_pc = "loop"
    /\ ex_i < Len(ex_lines)
    /\ NextInputLine = <<>>
    /\ ex_segment_count + 1 # ex_factor
    /\ ex_segment_count' = ex_segment_count + 1
    /\ ex_files' = [ex_files EXCEPT ![Len(ex_files)] = Append(@, <<>>)]
    /\ ex_i' = ex_i + 1
    /\ UNCHANGED <<ex_lines, ex_factor, ex_pc, ex_names, ex_exists,
                   notExVars>>

\* an empty line after which segment_count == factor: the output file is
\* closed and the next one opened
next_segment_file ==
    /\ ex_pc = "loop"
    /\ ex_i < Len(ex_lines)
    /\ NextInputLine = <<>>
    /\ ex_segment_count + 1 = ex_factor
    /\ ex_files' =
         Append([ex_files EXCEPT ![Len(ex_files)] = Append(@, <<>>)], <<>>)
    /\ ex_exists' = ex_exists \cup {Len(ex_names)}
    /\ ex_names' = Append(ex_names, Len(ex_names))
    /\ ex_segment_count' = 0
    /\ ex_i' = ex_i + 1
    /\ UNCHANGED <<ex_lines, ex_factor, ex_pc, notExVars>>

\* print(line, file=out_stream)
print_line ==
    /\ ex_pc = "loop"
    /\ ex_i < Len(ex_lines)
    /\ NextInputLine # <<>>
    /\ ex_files' = [ex_files EXCEPT ![Len(ex_files)] = Append(@, NextInputLine)]
    /\ ex_i' = ex_i + 1
    /\ UNCHANGED <<ex_lines, ex_factor, ex_pc, ex_segment_count, ex_names,
                   ex_exists, notExVars>>

\* after the loop: if segment_count == 0: remove(segment_file_names.pop())
return_file_names ==
    /\ ex_pc = "loop"
    /\ ex_i = Len(ex_lines)
    /\ IF ex_segment_count = 0
       THEN /\ ex_exists' = ex_exists \ {ex_names[Len(ex_names)]}
            /\ ex_names' = SubSeq(ex_names, 1, Len(ex_names) - 1)
       ELSE UNCHANGED <<ex_exists, ex_names>>
    /\ ex_pc' = "returned"
    /\ UNCHANGED <<ex_lines, ex_factor, ex_i, ex_segment_count, ex_files,
                   notExVars>>

NextSegmenter ==
    \/ print_empty_line
    \/ next_segment_file
    \/ print_line
    \/ return_file_names

\* the lines that are not empty, in order
RECURSIVE Rows13(_)
Rows13(lines) ==
    IF lines = <<>> THEN <<>>
    ELSE IF Head(lines) = <<>> THEN Rows13(Tail(lines))
    ELSE <<Head(lines)>> \o Rows13(Tail(lines))

\* the number of segments of a file: the rows that start a run of rows
SegmentsIn(lines) ==
    Cardinality({ l \in 1..Len(lines) :
                    lines[l] # <<>> /\ (l = 1 \/ lines[l - 1] = <<>>) })

\* the lines of the returned files, one file after the other
RECURSIVE Concatenation(_)
Concatenation(names) ==
    IF names = <<>> THEN <<>>
    ELSE ex_files[Head(names) + 1] \o Concatenation(Tail(names))

\* C13: segment_otpl_file returns files that each hold at most factor
\* segments, all but the last of them exactly factor; the returned files,
\* one after the other, hold every non-empty line of the input in the
\* original order, also when the last segment of the input is not followed
\* by an empty line; and every returned file exists.
C13_SegmentFiles ==
    ex_pc = "returned" =>
      /\ \A k \in 1..Len(ex_names) :
            /\ SegmentsIn(ex_files[ex_names[k] + 1]) <= ex_factor
            /\ k < Len(ex_names) =>
                 SegmentsIn(ex_files[ex_names[k] + 1]) = ex_factor
            /\ ex_names[k] \in ex_exists
      /\ Rows13(Concatenation(ex_names))
           = Rows13([l \in 1..Len(ex_lines) |-> strip(ex_lines[l])])

(***************************************************************************)
(* colspec.py: the default target of relation and reference columns        *)
(***************************************************************************)

\* the nearest column left of c whose type is in targets, or -1
RECURSIVE NearestLeft(_, _)
NearestLeft(c, targets) ==
    IF c - 1 < 0 THEN -1
    ELSE IF Col(colspec, c - 1) \in targets THEN c - 1
         ELSE NearestLeft(c - 1, targets)

\* the RELATION columns written without :N
PlainRelations ==
    {r \in Columns :
        Col(colspec, r) = RELATION /\ ~HasSuffix(Col(cs_headers, r))}

\* C19: in every accepted specification a RELATION column without :N has as
\* its source the nearest column to its left that is a POS_TAG or ENTITY
\* column, the first tag column to its left; RELATION and EVENT columns
\* lying between are skipped like the other skippable columns.
C19_RelationBindsToTag ==
    Accepted =>
        \A r \in PlainRelations :
            /\ r \in DOMAIN self._relations
            /\ self._relations[r] = NearestLeft(r, {POS_TAG, ENTITY})
            /\ self._relations[r] >= 0
            /\ \A c \in (self._relations[r] + 1)..(r - 1) :
                  Col(colspec, c) \in _SKIPPED_COLUMNS

\* an accepted header whose second relation skipped the first one
C19_Witness ==
    /\ Accepted
    /\ \E r \in PlainRelations : \E a \in Columns :
          /\ self._relations[r] < a
          /\ a < r
          /\ Col(colspec, a) = RELATION

\* C19 as stated: a RELATION column without :N binds to the nearest column
\* to its left that is a POS_TAG, ENTITY, RELATION or EVENT column, as a
\* property column does.
C19_RelationBindsAsProperty ==
    Accepted =>
        \A r \in PlainRelations :
            self._relations[r]
                = NearestLeft(r, {POS_TAG, ENTITY, RELATION, EVENT})

\* the reference columns written without :N
PlainReferences ==
    {c \in Columns : IsReference(c) /\ ~HasSuffix(Col(cs_headers, c))}

\* the dict that holds reference column c
ReferenceDict(c) ==
    IF Col(colspec, c) = LOCAL_REF
    THEN self._local_refs ELSE self._global_refs

\* every column strictly between t and c is skippable
SkippableBetween(t, c) ==
    \A k \in (t + 1)..(c - 1) : Col(colspec, k) \in _SKIPPED_COLUMNS

\* the tag columns among low..c-1 that the walk from c - 1 reaches
ReachedTags(c, low) ==
    {t \in low..(c - 1) :
        Col(colspec, t) \in {POS_TAG, ENTITY} /\ SkippableBetween(t, c)}

\* the walk from c - 1 down to low meets a column that is neither a tag
\* nor skippable
Blocked(c, low) ==
    \E k \in low..(c - 1) :
        /\ Col(colspec, k) \notin {POS_TAG, ENTITY} \cup _SKIPPED_COLUMNS
        /\ SkippableBetween(k, c)

\* the loop of __init__ raised at column c
RaisedAt(c) == cs_pc = "error" /\ self._width > 0 /\ cs_idx = c

\* the outcome of resolving the plain reference column c is that of the
\* walk from c - 1 down to column low
WalkedDownTo(c, low) ==
    /\ c \in DOMAIN ReferenceDict(c) =>
          ReferenceDict(c)[c] \in ReachedTags(c, low)
    /\ RaisedAt(c) =>
          /\ cs_err \in {"ValueError:has no target",
                         "ValueError:with no target"}
          /\ cs_err = "ValueError:has no target" <=> Blocked(c, low)
          /\ ReachedTags(c, low) = {}

\* C20: for a LOCAL_REF or GLOBAL_REF column c without :N the walk goes
\* from c - 1 down to the second column and never examines the first one:
\* the target is the nearest POS_TAG or ENTITY column among them with only
\* skippable columns between, 'has no target' is raised when the walk meets
\* a column among them that is neither, and 'with no target' when it passes
\* the second column without a target, whatever the first column is.
C20_WalkStopsAtSecondColumn ==
    \A c \in PlainReferences : WalkedDownTo(c, 1)

\* a reference behind a tag in the first column and skippable columns is
\* refused with 'with no target'
C20_Witness ==
    \E c \in PlainReferences :
        /\ RaisedAt(c)
        /\ cs_err = "ValueError:with no target"
        /\ c > 1
        /\ ReachedTags(c, 0) # {}

\* C20 as stated: the walk goes from c - 1 down to the first column.
C20_WalkReachesFirstColumn ==
    \A c \in PlainReferences : WalkedDownTo(c, 0)

(***************************************************************************)
(* converter.py: OtplBratConverter.  The per-file state of the converter   *)
(* is a record: the two maps, the five counters, the two row counts and    *)
(* the annotations written to the brat file so far.  The methods take      *)
(* that record and return it updated; err is the exception that left the   *)
(* method.                                                                 *)
(***************************************************************************)

\* the characters [\w-] of A_VALID_NAME: the letters, the digits, '_' and '-'
WordCharacters ==
    {LowerCase[i] : i \in 1..26} \cup {Printable[i] : i \in 34..59}
        \cup Digits \cup {"_", "-"}

\* A_VALID_NAME.match(name), for A_VALID_NAME = ^[\w-]+$; the $ matches at
\* the end of the name and before a line feed that ends it
A_VALID_NAME_match(field) ==
    LET whole(w) == w # <<>> /\ \A i \in 1..Len(w) : w[i] \in WordCharacters
    IN  \/ whole(field)
        \/ /\ field # <<>>
           /\ field[Len(field)] = "\n"
           /\ whole(SubSeq(field, 1, Len(field) - 1))

\* OtplBratConverter._validate_name
_validate_name(field) ==
    LET checked(mapped) ==
          IF ~A_VALID_NAME_match(mapped)
          THEN Raise(mapped, "DataFormatError") ELSE Ok(mapped)
    IN  checked(IF field \in DOMAIN cv_name_dict
                THEN cv_name_dict[field] ELSE field)

\* OtplBratConverter._reset_states; the counters hold the value next() of
\* them returns, {} is None
reset_states ==
    [_entity_counter |-> 1, _relation_counter |-> 1, _event_counter |-> 1,
     _normalization_counter |-> 1, _attribute_counter |-> 1,
     _global_map |-> {}, global_count |-> 0, line_count |-> 1,
     _local_map |-> <<>>, _annotation_file |-> <<>>, err |-> ""]

\* mapping[col] of a defaultdict(dict)
MapOf(mapping, col) == IF col \in DOMAIN mapping THEN mapping[col] ELSE <<>>

\* mapping[col].setdefault(key, uid) for every key of keys
setdefault(mapping, col, keys, uid) ==
    DictSet(mapping, col,
            [k \in DOMAIN MapOf(mapping, col) \cup keys |->
               IF k \in DOMAIN MapOf(mapping, col)
               THEN MapOf(mapping, col)[k] ELSE uid])

\* the column of an optional column attribute of the colspec
TheColumn(attr) == CHOOSE c \in cv_colspec[attr] : TRUE

\* OtplBratConverter._register: the record with the uid it returns
_register(conv, col, letter, counter, num, data_items) ==
    LET uid == <<letter>> \o format_d(conv[counter])
        global_ids ==
          { IF cv_colspec._global_enum = {}
            THEN format_d(conv.global_count + num + idx)
            ELSE Col(Col(data_items, idx), TheColumn("_global_enum")) :
              idx \in 0..(Len(data_items) - 1) }
        local_ids ==
          { IF cv_colspec._local_enum = {}
            THEN format_d(num + idx)
            ELSE Col(Col(data_items, idx), TheColumn("_local_enum")) :
              idx \in 0..(Len(data_items) - 1) }
    IN  [uid |-> uid,
         conv |->
           [conv EXCEPT
              ![counter] = @ + 1,
              !._global_map =
                 IF @ = {} THEN @
                 ELSE {setdefault(m, col, global_ids, uid) : m \in @},
              !._local_map = setdefault(@, col, local_ids, uid)]]

\* OtplBratConverter._store_annotation of the object a brat constructor
\* returned, or the exception the constructor raised
_store_annotation(conv, ann) ==
    IF ann.err # "" THEN [conv EXCEPT !.err = ann.err]
    ELSE [conv EXCEPT !._annotation_file = Append(@, ann.obj)]

\* OtplBratConverter.__get_id: RuntimeError if num is not in mapping[col]
get_id(col, num, mapping) ==
    IF num \in DOMAIN MapOf(mapping, col)
    THEN Ok(MapOf(mapping, col)[num]) ELSE Raise(<<>>, "RuntimeError")

\* OtplBratConverter._get_referenced_id
_get_referenced_id(conv, data, ref_col) ==
    LET target_col == get_reference_target(cv_colspec, ref_col)
        caught(r) ==
          IF r.err # "" THEN Raise(<<>>, "ValueError:unresolved reference")
          ELSE r
    IN  caught(IF ref_col \in DOMAIN cv_colspec._global_refs
               THEN get_id(target_col, Col(data, ref_col),
                           CHOOSE m \in conv._global_map : TRUE)
               ELSE get_id(target_col, Col(data, ref_col), conv._local_map))

\* OtplBratConverter._get_local_target_id
_get_local_target_id(conv, target_col, data, row_num) ==
    LET caught(r) ==
          IF r.err # ""
          THEN Raise(<<>>, "ValueError:unresolved local target") ELSE r
    IN  caught(get_id(target_col,
                      IF cv_colspec._local_enum = {} THEN format_d(row_num)
                      ELSE Col(data, TheColumn("_local_enum")),
                      conv._local_map))

\* OtplBratConverter._make_entity
_make_entity(conv, rows, row_num, col, start, end) ==
    LET off == IF {col} = cv_colspec._pos_tag THEN 0 ELSE 2
        stored(r, name) ==
          _store_annotation(r.conv,
              Entity(r.uid, name, start, end, Slice(cv_text, start, end)))
        named(name) ==
          IF name.err # "" THEN conv
          ELSE IF /\ {col} # cv_colspec._pos_tag
                  /\ \E i \in 1..Len(rows) :
                        SubSeq(Col(rows[i], col), 3, Len(Col(rows[i], col)))
                            # name.obj
               THEN [conv EXCEPT !.err = "AssertionError"]
               ELSE stored(_register(conv, col, "T", "_entity_counter",
                                     row_num, rows), name.obj)
    IN  named(_validate_name(
                SubSeq(Col(rows[1], col), off + 1, Len(Col(rows[1], col)))))

\* OtplBratConverter._yield_offsets from row idx: the list of the pairs it
\* yields, or the ValueError of a token that is not found
RECURSIVE _yield_offsets(_, _, _)
_yield_offsets(start, segment, idx) ==
    LET token == Col(Col(segment, idx), TheColumn("_token"))
        rest(at, r) ==
          IF r.err # "" THEN r
          ELSE Ok(<<<<at, at + Len(token)>>>> \o r.obj)
        found(at) ==
          rest(at, _yield_offsets(at + Len(token), segment, idx + 1))
    IN  IF idx >= Len(segment) THEN Ok(<<>>)
        ELSE IF NotFound(cv_text, token, start)
        THEN Raise(<<>>, "ValueError:token not found")
        ELSE found(Index(cv_text, token, start))

\* OtplBratConverter._process_pos from row idx
RECURSIVE process_pos_from(_, _, _, _)
process_pos_from(conv, segment, offsets, idx) ==
    LET col == TheColumn("_pos_tag")
        val == Col(Col(segment, idx), col)
    IN  IF idx >= Len(segment) \/ conv.err # "" THEN conv
        ELSE process_pos_from(
                 IF val # <<>> /\ val # NULL
                 THEN _make_entity(conv, <<Col(segment, idx)>>, idx + 1, col,
                                   offsets[idx + 1][1], offsets[idx + 1][2])
                 ELSE conv,
                 segment, offsets, idx + 1)

_process_pos(conv, segment, offsets) ==
    IF cv_colspec._pos_tag = {} THEN conv
    ELSE process_pos_from(conv, segment, offsets, 0)

\* the loop of _parse_bioe from row idx; bioe holds conv and the local
\* variables start and data_rows, row_num is idx + 1 - len(data_rows)
RECURSIVE parse_bioe_from(_, _, _, _, _)
parse_bioe_from(bioe, segment, col, offsets, idx) ==
    LET data == Col(segment, idx)
        val == Col(data, col)
        open == bioe.data_rows # <<>>
        row_num(data_rows) == idx + 1 - Len(data_rows)
        B == <<"B", "-">>
        E == <<"E", "-">>
        I == <<"I", "-">>
        step ==
          IF startswith(val, B)
          THEN [conv |-> IF open
                         THEN _make_entity(bioe.conv, bioe.data_rows,
                                  row_num(bioe.data_rows), col, bioe.start,
                                  PyIndex(offsets, idx - 1)[2])
                         ELSE bioe.conv,
                start |-> offsets[idx + 1][1],
                data_rows |-> <<data>>]
          ELSE IF startswith(val, E)
          THEN [conv |-> IF open
                         THEN _make_entity(bioe.conv,
                                  Append(bioe.data_rows, data),
                                  row_num(Append(bioe.data_rows, data)),
                                  col, bioe.start, offsets[idx + 1][2])
                         ELSE _make_entity(bioe.conv, <<data>>,
                                  row_num(bioe.data_rows), col,
                                  offsets[idx + 1][1], offsets[idx + 1][2]),
                start |-> bioe.start,
                data_rows |-> <<>>]
          ELSE IF startswith(val, I)
          THEN [conv |-> bioe.conv,
                start |-> IF open THEN bioe.start ELSE offsets[idx + 1][1],
                data_rows |-> Append(bioe.data_rows, data)]
          ELSE IF val = <<"O">>
          THEN [conv |-> IF open
                         THEN _make_entity(bioe.conv, bioe.data_rows,
                                  row_num(bioe.data_rows), col, bioe.start,
                                  PyIndex(offsets, idx - 1)[2])
                         ELSE bioe.conv,
                start |-> bioe.start,
                data_rows |-> <<>>]
          ELSE bioe
    IN  IF idx >= Len(segment) \/ bioe.conv.err # "" THEN bioe
        ELSE parse_bioe_from(step, segment, col, offsets, idx + 1)

\* OtplBratConverter._parse_bioe
_parse_bioe(conv, segment, col, offsets) ==
    parse_bioe_from([conv |-> conv, start |-> 0, data_rows |-> <<>>],
                    segment, col, offsets, 0)

\* OtplBratConverter._process_entities over the columns cols
RECURSIVE process_entities_from(_, _, _, _)
process_entities_from(conv, segment, offsets, cols) ==
    LET flushed(bioe) ==
          IF bioe.conv.err # "" \/ bioe.data_rows = <<>> THEN bioe.conv
          ELSE _make_entity(bioe.conv, bioe.data_rows,
                            Len(segment) - Len(bioe.data_rows), Head(cols),
                            bioe.start, PyIndex(offsets, -1)[2])
    IN  IF cols = <<>> \/ conv.err # "" THEN conv
        ELSE process_entities_from(
                 flushed(_parse_bioe(conv, segment, Head(cols), offsets)),
                 segment, offsets, Tail(cols))

_process_entities(conv, segment, offsets) ==
    process_entities_from(conv, segment, offsets,
                          iter_entities(cv_colspec))

\* OtplBratConverter._make_relation
_make_relation(conv, data, row_num, col) ==
    LET name == Col(data, col)
        ref_col == col - 1
        stored(c, uid, valid, source_id, target_id) ==
          IF source_id.err # "" THEN [c EXCEPT !.err = source_id.err]
          ELSE IF target_id.err # "" THEN [c EXCEPT !.err = target_id.err]
          ELSE _store_annotation(
                   c, Relation(uid, valid, source_id.obj, target_id.obj))
        registered(r, valid) ==
          stored(r.conv, r.uid, valid,
                 _get_local_target_id(r.conv, cv_colspec._relations[col],
                                      data, row_num),
                 _get_referenced_id(r.conv, data, ref_col))
        named(valid) ==
          IF valid.err # "" THEN conv
          ELSE registered(_register(conv, col, "R", "_relation_counter",
                                    row_num, <<data>>), valid.obj)
    IN  IF /\ Col(data, ref_col) # <<>> /\ name # <<>>
           /\ Col(data, ref_col) # <<"0">> /\ name # NULL
        THEN named(_validate_name(name))
        ELSE conv

\* 'Arg%d' % num
ArgName(num) == <<"A", "r", "g">> \o format_d(num)

\* dict(('Arg%d' % num, rid) for num, rid in enumerate(ref_ids, 1)
\*      if rid is not None), with the arguments numbered without gaps
references_dense(ids) ==
    LET given == {j \in 1..Len(ids) : ids[j].obj # None}
        rank(j) == Cardinality({i \in given : i <= j})
    IN  [k \in {ArgName(rank(j)) : j \in given} |->
           ids[CHOOSE j \in given : ArgName(rank(j)) = k].obj]

\* dict(('Arg%d' % num, rid) for num, rid in enumerate(ref_ids, 1)
\*      if rid is not None)
references(ids) ==
    [k \in {ArgName(i) : i \in {j \in 1..Len(ids) : ids[j].obj # None}}
       |-> ids[CHOOSE i \in 1..Len(ids) : ArgName(i) = k].obj]

\* OtplBratConverter._store_event_arguments on self._events, a dict of
\* lists of pairs (column, required); the IndexError of a list longer than
\* the one stored under the name is raised after the pairs of the stored
\* list have been replaced
_store_event_arguments(events, name, col_req_pairs) ==
    LET existing_pairs == events[name]
        downgraded(idx) ==
          /\ ~col_req_pairs[idx][2]
          /\ existing_pairs[idx][2]
        updated ==
          DictSet(events, name,
                  [idx \in 1..Len(existing_pairs) |->
                     IF idx <= Len(col_req_pairs) /\ downgraded(idx)
                     THEN <<col_req_pairs[idx][1], FALSE>>
                     ELSE existing_pairs[idx]])
    IN  IF name \notin DOMAIN events
        THEN Ok(DictSet(events, name, col_req_pairs))
        ELSE IF \E idx \in 1..Len(col_req_pairs) :
                   ~col_req_pairs[idx][2] /\ idx > Len(existing_pairs)
        THEN Raise(updated, "IndexError")
        ELSE Ok(updated)

\* OtplBratConverter._make_event
_make_event(conv, data, row_num, col) ==
    LET name == Col(data, col)
        trigger_col == cv_colspec._events[col][1]
        ref_cols == cv_colspec._events[col][2]
        ref_ids(c) ==
          [i \in 1..Len(ref_cols) |->
             IF Col(data, ref_cols[i]) = <<"0">> THEN Ok(None)
             ELSE _get_referenced_id(c, data, ref_cols[i])]
        kept(c, uid, valid, trigger_id, ids, events) ==
          IF events.err # ""
          THEN [c EXCEPT !.err = events.err, !._events = events.obj]
          ELSE _store_annotation(
                   [c EXCEPT !._events = events.obj],
                   Event(uid, valid, trigger_id.obj, references(ids)))
        stored(c, uid, valid, trigger_id, ids) ==
          IF trigger_id.err # "" THEN [c EXCEPT !.err = trigger_id.err]
          ELSE IF \E i \in 1..Len(ids) : ids[i].err # ""
          THEN [c EXCEPT !.err = "ValueError:unresolved reference"]
          ELSE kept(c, uid, valid, trigger_id, ids,
                    _store_event_arguments(
                        c._events, valid,
                        [i \in 1..Len(ref_cols) |->
                           <<ref_cols[i], ids[i].obj # None>>]))
        registered(r, valid) ==
          stored(r.conv, r.uid, valid,
                 _get_referenced_id(r.conv, data, trigger_col),
                 ref_ids(r.conv))
        named(valid) ==
          IF valid.err # "" THEN conv
          ELSE registered(_register(conv, col, "E", "_event_counter",
                                    row_num, <<data>>), valid.obj)
    IN  IF /\ name # <<>> /\ name # NULL
           /\ Col(data, trigger_col) # <<>>
           /\ Col(data, trigger_col) # <<"0">>
        THEN named(_validate_name(name))
        ELSE conv

\* OtplBratConverter._make_normalization
_make_normalization(conv, data, row_num, col) ==
    LET stored(c, uid, target_id, db_xref, string) ==
          IF Len(db_xref) # 2
          THEN [c EXCEPT !.err = "ValueError:not enough values to unpack"]
          ELSE IF _validate_name(db_xref[1]).err # "" THEN c
          ELSE _store_annotation(
                   c, Normalization(uid, target_id, db_xref[1], db_xref[2],
                                    string))
        split(c, uid, target_id, parts) ==
          stored(c, uid, target_id, split_once(parts[1], ":"),
                 IF Len(parts) = 2 THEN parts[2] ELSE parts[1])
        registered(r, target_id) ==
          split(r.conv, r.uid, target_id, split_once(Col(data, col), " "))
        targeted(target_id) ==
          IF target_id.err # "" THEN [conv EXCEPT !.err = target_id.err]
          ELSE registered(_register(conv, col, "N", "_normalization_counter",
                                    row_num, <<data>>), target_id.obj)
    IN  IF Col(data, col) # <<>> /\ Col(data, col) # NULL
        THEN targeted(_get_local_target_id(
                          conv, cv_colspec._normalizations[col], data,
                          row_num))
        ELSE conv

\* str(uid) of the tuple uid = 'A', + next(self._attribute_counter)
tuple_str(letter, n) ==
    <<"(", "'", letter, "'", ",", " ">> \o format_d(n) \o <<")">>

\* OtplBratConverter._make_attribute; the uid of the Attribute is the
\* tuple ('A', n), kept as the string it is written as
_make_attribute(conv, data, row_num, col) ==
    LET stored(c, uid, target, idx, valid) ==
          IF target.err # "" THEN [c EXCEPT !.err = target.err]
          ELSE _store_annotation(
                   c, Attribute(uid,
                                IF idx = -1 THEN valid
                                ELSE SubSeq(valid, 1, idx),
                                target.obj,
                                IF idx = -1 THEN <<>>
                                ELSE SubSeq(valid, idx + 1, Len(valid))))
        counted(c, uid, valid) ==
          stored(c, uid,
                 _get_local_target_id(c, cv_colspec._attributes[col], data,
                                      row_num),
                 find(valid, " "), valid)
        named(valid) ==
          IF valid.err # "" THEN conv
          ELSE counted([conv EXCEPT !._attribute_counter = @ + 1],
                       tuple_str("A", conv._attribute_counter), valid.obj)
    IN  IF Col(data, col) # <<>> /\ Col(data, col) # NULL
        THEN named(_validate_name(Col(data, col)))
        ELSE conv

\* maker_method(data, row, col) of _convert_annotations
make_annotation(maker_method, conv, data, row, col) ==
    CASE maker_method = "_make_relation" ->
            _make_relation(conv, data, row, col)
      [] maker_method = "_make_event" -> _make_event(conv, data, row, col)
      [] maker_method = "_make_normalization" ->
            _make_normalization(conv, data, row, col)
      [] maker_method = "_make_attribute" ->
            _make_attribute(conv, data, row, col)

\* OtplBratConverter._process_columns_with from row `row` of column
\* Head(cols)
RECURSIVE _process_columns_with(_, _, _, _, _)
_process_columns_with(conv, segment, cols, row, maker_method) ==
    IF cols = <<>> \/ conv.err # "" THEN conv
    ELSE IF row > Len(segment)
    THEN _process_columns_with(conv, segment, Tail(cols), 1, maker_method)
    ELSE _process_columns_with(
             make_annotation(maker_method, conv, segment[row], row,
                             Head(cols)),
             segment, cols, row + 1, maker_method)

\* OtplBratConverter._convert_annotations
_convert_annotations(conv, segment) ==
    _process_columns_with(
        _process_columns_with(
            _process_columns_with(
                _process_columns_with(
                    conv, segment, Ascending(DOMAIN cv_colspec._relations),
                    1, "_make_relation"),
                segment, Ascending(DOMAIN cv_colspec._events), 1,
                "_make_event"),
            segment, Ascending(DOMAIN cv_colspec._normalizations), 1,
            "_make_normalization"),
        segment, Ascending(DOMAIN cv_colspec._attributes), 1,
        "_make_attribute")

\* OtplBratConverter._convert_tokens_and_entities: the converter with the
\* new _local_map, and the end offset of the segment
_convert_tokens_and_entities(conv, segment, start) ==
    LET processed(offsets) ==
          IF offsets.err # ""
          THEN [conv |-> [conv EXCEPT !._local_map = <<>>,
                                      !.err = offsets.err],
                offset |-> start]
          ELSE [conv |-> _process_entities(
                             _process_pos([conv EXCEPT !._local_map = <<>>],
                                          segment, offsets.obj),
                             segment, offsets.obj),
                offset |-> PyIndex(offsets.obj, -1)[2]]
    IN  processed(_yield_offsets(start, segment, 0))

\* self.__global_count += len(seg); self.__line_count += len(seg) + 1
Counted(conv, seg) ==
    IF conv.err # "" THEN conv
    ELSE [conv EXCEPT !.global_count = @ + Len(seg),
                      !.line_count = @ + Len(seg) + 1]

(***************************************************************************)
(* The files convert is run on: a header, the rows of the OTPL file as     *)
(* the reader yields them in segments, and the text file.                  *)
(***************************************************************************)

\* the most rows of a file of TOKEN and ENTITY columns only
MaxTagRows == 3

\* the most rows of a file of any other header
MaxConverterRows == 2

\* the most rows of a file with two EVENT columns
MaxTwoEventRows == 1

\* the fields of a column of each type
FieldsOf(coltype) ==
    CASE coltype = POS_TAG -> {<<"X">>, NULL}
      [] coltype = ENTITY ->
            {<<"B", "-", "x">>, <<"I", "-", "x">>, <<"E", "-", "x">>,
             <<"O">>, <<"I", "-", "y">>, <<"B", "-", "!">>}
      [] coltype = LOCAL_REF -> {<<"0">>, <<"1">>}
      [] coltype = GLOBAL_REF -> {<<"0">>, <<"1">>, <<"2">>}
      [] coltype = RELATION -> {<<"r">>, NULL, <<"0">>}
      [] coltype = EVENT -> {<<"s">>, <<"t">>}
      [] coltype = NORMALIZATION -> {<<"d", ":", "1">>, NULL}
      [] coltype = ATTRIBUTE -> {<<"q">>, NULL, <<"q", " ", "m">>}
      [] coltype = LOCAL_ENUM -> {<<"1">>, <<"2">>}

\* the token of the k-th row of the file
TokenOf(k) == IF k % 2 = 1 THEN <<"a">> ELSE <<"b">>

\* the rows a k-th row of a file of the column types ints is drawn from
RECURSIVE RowsOf(_, _)
RowsOf(ints, k) ==
    IF ints = <<>> THEN {<<>>}
    ELSE LET fields == IF Head(ints) = TOKEN THEN {TokenOf(k)}
                       ELSE FieldsOf(Head(ints))
         IN  {<<f>> \o r : f \in fields, r \in RowsOf(Tail(ints), k)}

\* the files of n rows of the column types ints
RECURSIVE FilesOf(_, _)
FilesOf(ints, n) ==
    IF n = 0 THEN {<<>>}
    ELSE {Append(rows, row) : rows \in FilesOf(ints, n - 1),
                              row \in RowsOf(ints, n)}

\* a header of plain names, and one with NAME:N in column k (0-based)
Plain(names) == [i \in 1..Len(names) |-> HeaderToken(names[i], {})]
Suffixed(names, k, n) ==
    [i \in 1..Len(names) |->
       HeaderToken(names[i], IF i = k + 1 THEN {n} ELSE {})]

\* the headers of the files
ConverterHeaders ==
    { Plain(<<"TOKEN", "ENTITY">>),
      Plain(<<"TOKEN", "ENTITY", "NORMALIZATION">>),
      Plain(<<"TOKEN", "POS_TAG", "GLOBAL_REF", "RELATION">>),
      Suffixed(<<"TOKEN", "POS_TAG", "GLOBAL_REF", "RELATION">>, 2, 4),
      Plain(<<"TOKEN", "POS_TAG", "ATTRIBUTE", "GLOBAL_REF">>),
      Plain(<<"TOKEN", "POS_TAG", "LOCAL_REF", "LOCAL_REF", "LOCAL_REF",
              "EVENT">>),
      Plain(<<"LOCAL_ENUM", "TOKEN", "POS_TAG", "NORMALIZATION">>),
      Plain(<<"TOKEN", "POS_TAG", "LOCAL_REF", "LOCAL_REF", "EVENT",
              "LOCAL_REF", "LOCAL_REF", "LOCAL_REF", "EVENT">>) }

\* the most rows of a file of the column types ints
MaxRowsOf(ints) ==
    IF \A i \in 1..Len(ints) : ints[i] \in {TOKEN, ENTITY}
    THEN MaxTagRows
    ELSE IF Cardinality({i \in 1..Len(ints) : ints[i] = EVENT}) > 1
    THEN MaxTwoEventRows
    ELSE MaxConverterRows

\* the name dicts of set_name_dict: the empty one of __init__, and one that
\* maps the entity name x; only files of TOKEN and ENTITY columns use it
NameDicts(ints) ==
    IF \A i \in 1..Len(ints) : ints[i] \in {TOKEN, ENTITY}
    THEN {<<>>, [k \in {<<"x">>} |-> <<"z">>]} ELSE {<<>>}

\* the rows cut into segments after the rows of breaks
RECURSIVE SegmentsOf(_, _, _)
SegmentsOf(rows, breaks, from) ==
    LET upto == IF \E b \in breaks : b >= from
                THEN CHOOSE b \in breaks :
                        b >= from /\ \A c \in breaks : c >= from => b <= c
                ELSE Len(rows)
    IN  IF from > Len(rows) THEN <<>>
        ELSE <<SubSeq(rows, from, upto)>>
                 \o SegmentsOf(rows, breaks, upto + 1)

\* the text of the rows: their tokens, one space between two of them
RECURSIVE TextOf(_)
TextOf(n) ==
    IF n = 0 THEN <<>>
    ELSE IF n = 1 THEN TokenOf(1)
    ELSE TextOf(n - 1) \o <<" ">> \o TokenOf(n)

\* the text files of a file of n rows: the text of the rows and, for the
\* files of TOKEN and ENTITY columns only, the text without its last
\* character
TextsOf(ints, n) ==
    IF \A i \in 1..Len(ints) : ints[i] \in {TOKEN, ENTITY}
    THEN {TextOf(n), SubSeq(TextOf(n), 1, Len(TextOf(n)) - 1)}
    ELSE {TextOf(n)}

\* the most rows of a file of the wide header
MaxWideRows == 2

\* a header of nine columns with the ENTITY columns 1 and 8: the set of
\* the two is iterated 8 first
WideHeader ==
    Plain(<<"TOKEN", "ENTITY", "POS_TAG", "ATTRIBUTE", "ATTRIBUTE",
            "ATTRIBUTE", "ATTRIBUTE", "ATTRIBUTE", "ENTITY">>)

\* the tags of the first and of the last ENTITY column of its rows; the
\* columns between them hold a PoS tag and no attribute
FirstTags == {<<"B", "-", "x">>, <<"I", "-", "x">>, <<"O">>}
LastTags == {<<"B", "-", "y">>, <<"I", "-", "y">>, <<"O">>}

\* the files of n rows of the wide header
RECURSIVE WideFilesOf(_)
WideFilesOf(n) ==
    IF n = 0 THEN {<<>>}
    ELSE {Append(rows, <<TokenOf(n), first, <<"X">>>> \o [i \in 1..5 |-> NULL]
                         \o <<last>>) :
            rows \in WideFilesOf(n - 1), first \in FirstTags, last \in LastTags}

\* OtplBratConverter() and set_colspec, set_name_dict: a converter for the
\* files of one header, the segments of one file, and its text; a converter
\* for the files of the wide header; or a converter without a colspec
InitConverter ==
    /\ \/ /\ cv_pc = "configured"
          /\ \E headers \in ConverterHeaders :
                /\ cv_colspec =
                     ColumnSpecification(parse_colspec(headers).colspec,
                                         headers).obj
                /\ cv_name_dict \in NameDicts(parse_colspec(headers).colspec)
                /\ \E n \in 1..MaxRowsOf(parse_colspec(headers).colspec) :
                      /\ \E breaks \in SUBSET (1..(n - 1)) :
                         \E rows \in
                             FilesOf(parse_colspec(headers).colspec, n) :
                            cv_segments = SegmentsOf(rows, breaks, 1)
                      /\ cv_text \in
                           TextsOf(parse_colspec(headers).colspec, n)
       \/ /\ cv_pc = "configured"
          /\ cv_colspec =
               ColumnSpecification(parse_colspec(WideHeader).colspec,
                                   WideHeader).obj
          /\ cv_name_dict = <<>>
          /\ \E n \in 1..MaxWideRows :
                /\ \E breaks \in SUBSET (1..(n - 1)) :
                   \E rows \in WideFilesOf(n) :
                      cv_segments = SegmentsOf(rows, breaks, 1)
                /\ cv_text = TextOf(n)
       \/ /\ cv_pc = "no colspec"
          /\ cv_colspec = NewColumnSpecification(0)
          /\ cv_name_dict = <<>>
          /\ cv_segments = <<<<<<TokenOf(1)>>>>>>
          /\ cv_text = TextOf(1)
    /\ cv_seg = 0
    /\ cv_offset = 0
    /\ cv_local_maps = <<>>
    /\ cv_replayed = <<>>
    /\ converter = DictSet(reset_states, "_events", <<>>)
    /\ cv_result = ""

\* convert: self._colspec is None
convert_without_colspec ==
    /\ cv_pc = "no colspec"
    /\ cv_pc' = "returned"
    /\ cv_result' = "False"
    /\ UNCHANGED <<cv_colspec, cv_name_dict, cv_text, cv_segments, cv_seg,
                   cv_offset, cv_local_maps, cv_replayed, converter,
                   notCvVars>>

\* convert: the text is read, the states are reset and one of the two
\* conversions begins
reset_and_begin ==
    /\ cv_pc = "configured"
    /\ IF cv_colspec._global_refs # <<>>
       THEN /\ converter' =
                 DictSet([reset_states EXCEPT !._global_map = {<<>>}],
                         "_events", converter._events)
            /\ cv_pc' = "first pass"
       ELSE /\ converter' =
                 DictSet(reset_states, "_events", converter._events)
            /\ cv_pc' = "local"
    /\ cv_seg' = 1
    /\ cv_offset' = 0
    /\ cv_local_maps' = <<>>
    /\ UNCHANGED <<cv_colspec, cv_name_dict, cv_text, cv_segments,
                   cv_replayed, cv_result, notCvVars>>

\* except (ValueError, DataFormatError) of convert
ConvertCaught ==
    {"ValueError:token not found", "ValueError:unresolved reference",
     "ValueError:unresolved local target",
     "ValueError:not enough values to unpack", "DataFormatError"}

\* what follows one pass of a loop over the segments: the loop goes on, or
\* convert catches the ValueError or DataFormatError and returns False, or
\* another exception leaves convert
LoopGoesOn(pc) ==
    IF converter'.err = ""
    THEN cv_pc' = pc /\ cv_seg' = cv_seg + 1 /\ UNCHANGED cv_result
    ELSE IF converter'.err \in ConvertCaught
    THEN cv_pc' = "returned" /\ cv_result' = "False" /\ UNCHANGED cv_seg
    ELSE cv_pc' = "raised" /\ UNCHANGED <<cv_seg, cv_result>>

\* one pass of the loop of _convert_local
convert_local_segment ==
    /\ cv_pc = "local"
    /\ cv_seg <= Len(cv_segments)
    /\ LET annotated(r) ==
             [conv |-> Counted(IF r.conv.err # "" THEN r.conv
                               ELSE _convert_annotations(
                                        r.conv, cv_segments[cv_seg]),
                               cv_segments[cv_seg]),
              offset |-> r.offset]
           assigned(r) == converter' = r.conv /\ cv_offset' = r.offset
       IN  assigned(annotated(_convert_tokens_and_entities(
                                  converter, cv_segments[cv_seg], cv_offset)))
    /\ LoopGoesOn("local")
    /\ UNCHANGED <<cv_colspec, cv_name_dict, cv_text, cv_segments,
                   cv_local_maps, cv_replayed, notCvVars>>

\* one pass of the first loop of _convert_with_globals; the map appended to
\* local_maps is kept with the number of the segment it was made for
first_pass_segment ==
    /\ cv_pc = "first pass"
    /\ cv_seg <= Len(cv_segments)
    /\ LET assigned(r) ==
             /\ converter' = Counted(r.conv, cv_segments[cv_seg])
             /\ cv_offset' = r.offset
             /\ cv_local_maps' =
                  IF r.conv.err # "" THEN cv_local_maps
                  ELSE Append(cv_local_maps,
                              [segment |-> cv_seg,
                               lmap |-> r.conv._local_map])
       IN  assigned(_convert_tokens_and_entities(
                        converter, cv_segments[cv_seg], cv_offset))
    /\ LoopGoesOn("first pass")
    /\ UNCHANGED <<cv_colspec, cv_name_dict, cv_text, cv_segments,
                   cv_replayed, notCvVars>>

\* between the loops of _convert_with_globals: the counts are reset and
\* local_maps = reversed(local_maps)
reverse_local_maps ==
    /\ cv_pc = "first pass"
    /\ cv_seg > Len(cv_segments)
    /\ converter' = [converter EXCEPT !.global_count = 0, !.line_count = 1]
    /\ cv_local_maps' = Reversed(cv_local_maps)
    /\ cv_seg' = 1
    /\ cv_pc' = "second pass"
    /\ UNCHANGED <<cv_colspec, cv_name_dict, cv_text, cv_segments, cv_offset,
                   cv_replayed, cv_result, notCvVars>>

\* one pass of the second loop of _convert_with_globals:
\* self._local_map = next(local_maps)
second_pass_segment ==
    /\ cv_pc = "second pass"
    /\ cv_seg <= Len(cv_segments)
    /\ converter' = Counted(
                   _convert_annotations(
                       [converter EXCEPT
                          !._local_map = cv_local_maps[cv_seg].lmap],
                       cv_segments[cv_seg]),
                   cv_segments[cv_seg])
    /\ cv_replayed' = Append(cv_replayed, cv_local_maps[cv_seg].segment)
    /\ LoopGoesOn("second pass")
    /\ UNCHANGED <<cv_colspec, cv_name_dict, cv_text, cv_segments, cv_offset,
                   cv_local_maps, notCvVars>>

\* convert returns True after the last segment
convert_returns_true ==
    /\ cv_pc \in {"local", "second pass"}
    /\ cv_seg > Len(cv_segments)
    /\ cv_pc' = "returned"
    /\ cv_result' = "True"
    /\ UNCHANGED <<cv_colspec, cv_name_dict, cv_text, cv_segments, cv_seg,
                   cv_offset, cv_local_maps, cv_replayed, converter,
                   notCvVars>>

NextConverter ==
    \/ convert_without_colspec
    \/ reset_and_begin
    \/ convert_local_segment
    \/ first_pass_segment
    \/ reverse_local_maps
    \/ second_pass_segment
    \/ convert_returns_true
(***************************************************************************)
(* converter.py: the two passes of _convert_with_globals                   *)
(***************************************************************************)

\* C14: in the conversion of a file with global references the second loop
\* handles the i-th segment with the local map the first loop made for the
\* i-th segment, for every i.
C14_MapsReplayedInOrder ==
    \A i \in 1..Len(cv_replayed) : cv_replayed[i] = i

\* the rows of the file, in the order of the file
RECURSIVE Flat(_)
Flat(segments) ==
    IF segments = <<>> THEN <<>> ELSE Head(segments) \o Flat(Tail(segments))

\* the row has an annotation in column t: a tag that is not NULL, or a
\* relation name that is not NULL behind a reference that is not 0
Carries(row, t) ==
    IF t \in DOMAIN cv_colspec._relations
    THEN Col(row, t) # NULL /\ Col(row, t - 1) # <<"0">>
    ELSE Col(row, t) # NULL

\* the global references the conversion looks up: the reference column
\* left of a relation column, in the rows that have the relation
LookedUp ==
    {<<k, c - 1>> : k \in 1..Len(Flat(cv_segments)),
                    c \in {r \in DOMAIN cv_colspec._relations :
                              r - 1 \in DOMAIN cv_colspec._global_refs}}
        \cap {p \in (1..Len(Flat(cv_segments))) \X (0..cv_colspec._width) :
                 Carries(Flat(cv_segments)[p[1]], p[2] + 1)}

\* the value of the reference is the global key of a row that has an
\* annotation in the target column of the reference
Resolvable(k, ref_col) ==
    \E j \in 1..Len(Flat(cv_segments)) :
        /\ format_d(j) = Col(Flat(cv_segments)[k], ref_col)
        /\ Carries(Flat(cv_segments)[j], cv_colspec._global_refs[ref_col])

\* C15: in the conversion of a file with global references a reference is
\* unresolved only if its value is the global key of no row that has an
\* annotation in its target column, be that a tag or a relation column and
\* be the row before or after the referencing row; a conversion that
\* returns True has resolved every reference it looked up.
C15_GlobalReferencesResolve ==
    cv_colspec._global_refs # <<>> =>
        /\ converter.err = "ValueError:unresolved reference" =>
              \E p \in LookedUp : ~Resolvable(p[1], p[2])
        /\ cv_result = "True" =>
              \A p \in LookedUp : Resolvable(p[1], p[2])

(***************************************************************************)
(* converter.py: the entities of the tag columns, the keys _register       *)
(* gives them in the local map, and the ids of the annotations             *)
(***************************************************************************)

\* the segment the loop over the segments has just handled, and the number
\* of the rows of the file before it
Handled == cv_segments[cv_seg - 1]
RowsBefore(s) == Len(Flat(SubSeq(cv_segments, 1, s - 1)))

\* the offsets of the token of the k-th row of the file in TextOf
StartOf(k) == 2 * (k - 1)
EndOf(k) == 2 * (k - 1) + 1

\* the rows of the handled segment, numbered from 1, that an entity covers
Covered(entity) ==
    {r \in 1..Len(Handled) :
        /\ entity.start <= StartOf(RowsBefore(cv_seg - 1) + r)
        /\ EndOf(RowsBefore(cv_seg - 1) + r) <= entity.end}

\* the entities written so far
Entities ==
    SelectSeq(converter._annotation_file, LAMBDA ann : ann.cls = "Entity")

\* the keys of the local map of the column that hold the uid
KeysOf(col, uid) ==
    {k \in DOMAIN MapOf(converter._local_map, col) :
        MapOf(converter._local_map, col)[k] = uid}

\* C16: without a LOCAL_ENUM column, after _convert_tokens_and_entities
\* has handled a segment, every entity of the segment is registered in
\* the local map of its tag column under the 1-based numbers of exactly
\* the rows of the segment it covers, however its span was closed.
C16_SpanKeys ==
    /\ cv_pc \in {"local", "first pass"}
    /\ cv_seg > 1
    /\ cv_colspec._local_enum = {}
    => \A col \in cv_colspec._pos_tag \cup cv_colspec._entities :
       \A i \in 1..Len(Entities) :
          Covered(Entities[i]) # {} =>
             KeysOf(col, Entities[i].uid) =
                 {format_d(r) : r \in Covered(Entities[i])}

\* the spans of the tags of column col from row idx (numbered from 1) of
\* the segment, read as the span state machine: open is the first row of
\* the open span or 0
RECURSIVE SpansFrom(_, _, _, _)
SpansFrom(segment, col, idx, open) ==
    LET val == Col(segment[idx], col)
        flush == IF open = 0 THEN <<>> ELSE <<<<open, idx - 1>>>>
    IN  IF idx > Len(segment)
        THEN flush
        ELSE IF startswith(val, <<"B", "-">>)
        THEN flush \o SpansFrom(segment, col, idx + 1, idx)
        ELSE IF startswith(val, <<"I", "-">>)
        THEN SpansFrom(segment, col, idx + 1, IF open = 0 THEN idx ELSE open)
        ELSE IF startswith(val, <<"E", "-">>)
        THEN <<<<IF open = 0 THEN idx ELSE open, idx>>>>
                 \o SpansFrom(segment, col, idx + 1, 0)
        ELSE IF val = <<"O">>
        THEN flush \o SpansFrom(segment, col, idx + 1, 0)
        ELSE SpansFrom(segment, col, idx + 1, open)

\* the type name of a span: the tag of its first row without the prefix
\* of two characters, as the name dict maps it
SpanName(segment, col, span) ==
    _validate_name(SubSeq(Col(segment[span[1]], col), 3,
                          Len(Col(segment[span[1]], col))))

\* the entities of the spans of the ENTITY columns cols of segment s: one
\* of each span with a name brat can cope with, from the start of the
\* token of its first row to the end of the token of its last row
RECURSIVE SpanEntities(_, _)
SpanEntities(s, cols) ==
    LET spans == SpansFrom(cv_segments[s], Head(cols), 1, 0)
        valid == SelectSeq(spans, LAMBDA span :
                     SpanName(cv_segments[s], Head(cols), span).err = "")
    IN  IF cols = <<>> THEN <<>>
        ELSE [i \in 1..Len(valid) |->
                [name |-> SpanName(cv_segments[s], Head(cols), valid[i]).obj,
                 start |-> StartOf(RowsBefore(s) + valid[i][1]),
                 end |-> EndOf(RowsBefore(s) + valid[i][2])]]
                 \o SpanEntities(s, Tail(cols))

\* the entities of the spans of the segments from segment s
RECURSIVE ExpectedEntities(_)
ExpectedEntities(s) ==
    IF s > Len(cv_segments) THEN <<>>
    ELSE SpanEntities(s, iter_entities(cv_colspec))
             \o ExpectedEntities(s + 1)

\* C17: the conversion of a file with ENTITY columns and no POS_TAG column
\* reads the tags of each segment as the span state machine of B-, I-, E-
\* and O: no exception leaves convert, and a conversion that returns True
\* has written exactly one Entity of every span, in the order of the
\* spans, with the name of the span and its offsets.
C17_OneEntityPerSpan ==
    cv_colspec._entities # {} /\ cv_colspec._pos_tag = {} =>
        /\ cv_pc # "raised"
        /\ cv_pc = "returned" /\ cv_result = "True" =>
              [i \in 1..Len(Entities) |->
                 [name |-> Entities[i].name, start |-> Entities[i].start,
                  end |-> Entities[i].end]] = ExpectedEntities(1)

\* the letter of the ids of a kind of annotation, and its counter
LetterOf(cls) ==
    CASE cls = "Entity" -> "T" [] cls = "Relation" -> "R"
      [] cls = "Event" -> "E" [] cls = "Normalization" -> "N"
      [] cls = "Attribute" -> "A"
CounterOf(cls) ==
    CASE cls = "Entity" -> "_entity_counter"
      [] cls = "Relation" -> "_relation_counter"
      [] cls = "Event" -> "_event_counter"
      [] cls = "Normalization" -> "_normalization_counter"
      [] cls = "Attribute" -> "_attribute_counter"

\* the uid is the letter of the kind and a number the counter of the kind
\* has given out
IsIdOf(uid, cls, n) ==
    /\ n \in 1..(converter[CounterOf(cls)] - 1)
    /\ uid = <<LetterOf(cls)>> \o format_d(n)

\* C18: every annotation written has the id <letter><n> of its kind, n
\* from the counter of the kind, and of two annotations of one kind the
\* one written later has the greater n.
C18_IdsPerLetter ==
    LET file == converter._annotation_file
    IN  /\ \A i \in 1..Len(file) :
              \E n \in 1..(converter[CounterOf(file[i].cls)] - 1) :
                 IsIdOf(file[i].uid, file[i].cls, n)
        /\ \A i, j \in 1..Len(file) :
              i < j /\ file[i].cls = file[j].cls =>
                 \A n, m \in 1..(converter[CounterOf(file[i].cls)] - 1) :
                    /\ IsIdOf(file[i].uid, file[i].cls, n)
                    /\ IsIdOf(file[j].uid, file[j].cls, m)
                    => n < m

(***************************************************************************)
(* converter.py: the relations                                             *)
(***************************************************************************)

\* the relations written so far
Relations ==
    SelectSeq(converter._annotation_file, LAMBDA ann : ann.cls = "Relation")

\* the RELATION column of a file with one RELATION column
TheRelationColumn == CHOOSE col \in DOMAIN cv_colspec._relations : TRUE

\* the field is empty, 0 or NULL
Undefined(field) == field \in {<<>>, <<"0">>, NULL}

\* the numbers, from 1, of the rows of the file whose reference field left
\* of the RELATION column and whose name field are both defined
RelationRowsUpTo(k) ==
    {j \in 1..k :
        /\ ~Undefined(Col(Flat(cv_segments)[j], TheRelationColumn - 1))
        /\ ~Undefined(Col(Flat(cv_segments)[j], TheRelationColumn))}

\* the number of the i-th such row
RelationRow(i) ==
    CHOOSE k \in 1..Len(Flat(cv_segments)) :
        /\ k \in RelationRowsUpTo(k)
        /\ Cardinality(RelationRowsUpTo(k)) = i

\* the id registered for row k of the file in column col: that of the
\* entity of the POS_TAG of the row, or of the relation of the row, each
\* numbered in the order of the rows
IdOfRow(k, col) ==
    IF {col} = cv_colspec._pos_tag
    THEN <<"T">> \o format_d(Cardinality(
             {j \in 1..k : Col(Flat(cv_segments)[j], col) # NULL}))
    ELSE <<"R">> \o format_d(Cardinality(RelationRowsUpTo(k)))

\* the number of the row whose global key is the reference of row k
ReferencedRow(k) ==
    CHOOSE j \in 1..Len(Flat(cv_segments)) :
        format_d(j) = Col(Flat(cv_segments)[k], TheRelationColumn - 1)

\* C21: a conversion of a file with one RELATION column that returns True
\* has written one Relation for each row whose reference field and name
\* field are neither empty, 0 nor NULL, and for no other row; the source
\* of the relation is the id registered for its own row in the source
\* column of the relation, and its target is the id registered in the
\* target column of the reference for the row the reference names.
C21_RelationOfEveryDefinedRow ==
    /\ Cardinality(DOMAIN cv_colspec._relations) = 1
    /\ cv_pc = "returned"
    /\ cv_result = "True"
    => /\ Len(Relations) =
             Cardinality(RelationRowsUpTo(Len(Flat(cv_segments))))
       /\ \A i \in 1..Len(Relations) :
             /\ i <= Cardinality(RelationRowsUpTo(Len(Flat(cv_segments))))
             /\ Relations[i].args[Arg1] =
                    IdOfRow(RelationRow(i),
                            cv_colspec._relations[TheRelationColumn])
             /\ Relations[i].args[Arg2] =
                    IdOfRow(ReferencedRow(RelationRow(i)),
                            get_reference_target(cv_colspec,
                                                 TheRelationColumn - 1))

(***************************************************************************)
(* converter.py: the arguments of the events                               *)
(***************************************************************************)

\* the events written so far
Events ==
    SelectSeq(converter._annotation_file, LAMBDA ann : ann.cls = "Event")

\* the EVENT column of a file with one EVENT column, and its columns of
\* argument references, from left to right
TheEventColumn == CHOOSE col \in DOMAIN cv_colspec._events : TRUE
ArgumentColumns == cv_colspec._events[TheEventColumn][2]

\* the rows of the file that have an event: a name that is not NULL and a
\* trigger reference that is not 0
EventRows ==
    SelectSeq(Flat(cv_segments),
              LAMBDA row :
                  /\ Col(row, TheEventColumn) \notin {<<>>, NULL}
                  /\ Col(row, cv_colspec._events[TheEventColumn][1])
                         \notin {<<>>, <<"0">>})

\* the positions, from 1, of the argument columns of the row that do not
\* hold 0
GivenArguments(row) ==
    {p \in 1..Len(ArgumentColumns) :
        Col(row, ArgumentColumns[p]) # <<"0">>}

\* a conversion of a file with one EVENT column has returned True
EventsConverted ==
    /\ Cardinality(DOMAIN cv_colspec._events) = 1
    /\ cv_pc = "returned"
    /\ cv_result = "True"

\* C22: every event written has one argument for each argument column of
\* its row that does not hold 0, named Arg<p> by the position p of the
\* column among the argument columns of the event, from left to right; a
\* column that holds 0 gives no argument and its number is not used.
C22_ArgumentsNamedByPosition ==
    EventsConverted =>
        /\ Len(Events) = Len(EventRows)
        /\ \A i \in 1..Len(Events) :
              DOMAIN Events[i].args =
                  {ArgName(p) : p \in GivenArguments(EventRows[i])}

\* an event of a row whose first argument column holds 0 and whose second
\* does not has been written
C22_Witness ==
    /\ EventsConverted
    /\ \E i \in 1..Len(Events) :
          /\ GivenArguments(EventRows[i]) = {2}
          /\ DOMAIN Events[i].args = {ArgName(2)}

\* C22 as stated: the arguments of every event written are named Arg1 to
\* Argk without a gap, k the number of the argument columns of its row
\* that do not hold 0.
C22_ArgumentsNamedDensely ==
    EventsConverted =>
        /\ Len(Events) = Len(EventRows)
        /\ \A i \in 1..Len(Events) :
              DOMAIN Events[i].args =
                  {ArgName(k) :
                      k \in 1..Cardinality(GivenArguments(EventRows[i]))}

\* the events written so far under the name
EventsNamed(name) == SelectSeq(Events, LAMBDA ann : ann.name = name)

\* the most argument columns of an EVENT column of the file
MostArguments ==
    CHOOSE n \in 0..cv_colspec._width :
        /\ \A col \in DOMAIN cv_colspec._events :
              Len(cv_colspec._events[col][2]) <= n
        /\ \E col \in DOMAIN cv_colspec._events :
              Len(cv_colspec._events[col][2]) = n

\* the record of the converter marks position p of the name as required
MarkedRequired(name, p) ==
    /\ name \in DOMAIN converter._events
    /\ p <= Len(converter._events[name])
    /\ converter._events[name][p][2]

\* the record says of the names of the events written, and of no other
\* name, at which positions every one of their events has an argument,
\* and storing the arguments of an event has raised no exception
RequiredIffAlwaysGiven ==
    cv_colspec._events # <<>> =>
        /\ converter.err # "IndexError"
        /\ DOMAIN converter._events =
              {Events[i].name : i \in 1..Len(Events)}
        /\ \A name \in DOMAIN converter._events :
           \A p \in 1..MostArguments :
              MarkedRequired(name, p) <=>
                  \A i \in 1..Len(EventsNamed(name)) :
                      ArgName(p) \in DOMAIN EventsNamed(name)[i].args

\* a position of a name that is not marked required is not marked
\* required later
OptionalStaysOptional ==
    \A name \in DOMAIN converter._events :
    \A p \in 1..MostArguments :
        ~MarkedRequired(name, p) => ~MarkedRequired(name, p)'

\* C23: at every point of a conversion the record of the converter marks
\* position p of an event name as required if and only if every event
\* written under that name so far has a reference that is not 0 at
\* position p, and a position once marked optional is never marked
\* required again.
C23_RequiredIffAlwaysGiven ==
    []RequiredIffAlwaysGiven /\ [][OptionalStaysOptional]_vars

(***************************************************************************)
(* converter.py: names that brat cannot cope with, and the name dict       *)
(***************************************************************************)

\* the loop of _convert_local from segment s on, as one function of the
\* segments: the converter after the last segment or after the exception
RECURSIVE convert_local_from(_, _, _, _)
convert_local_from(conv, segments, s, offset) ==
    LET annotated(r) ==
          [conv |-> Counted(IF r.conv.err # "" THEN r.conv
                            ELSE _convert_annotations(r.conv, segments[s]),
                            segments[s]),
           offset |-> r.offset]
        next(r) == convert_local_from(r.conv, segments, s + 1, r.offset)
    IN  IF s > Len(segments) \/ conv.err # "" THEN conv
        ELSE next(annotated(_convert_tokens_and_entities(
                                conv, segments[s], offset)))

\* the field with every character brat cannot cope with replaced by x
Legal(field) ==
    [i \in 1..Len(field) |-> IF field[i] = "!" THEN "x" ELSE field[i]]

\* the segments with the names of the ENTITY columns made legal
LegalSegments ==
    [s \in 1..Len(cv_segments) |->
       [k \in 1..Len(cv_segments[s]) |->
          [c \in 1..Len(cv_segments[s][k]) |->
             IF c - 1 \in cv_colspec._entities
             THEN Legal(cv_segments[s][k][c])
             ELSE cv_segments[s][k][c]]]]

\* the normalizations among the annotations, without their ids
NormalizationsOf(file) ==
    LET ns == SelectSeq(file, LAMBDA ann : ann.cls = "Normalization")
    IN  [i \in 1..Len(ns) |-> <<ns[i].db, ns[i].xref, ns[i].text>>]

\* a conversion without global references of a file in which an ENTITY
\* column has a name brat cannot cope with has ended
IllegalNameConverted ==
    /\ cv_colspec._global_refs = <<>>
    /\ cv_colspec._entities # {}
    /\ cv_pc \in {"returned", "raised"}
    /\ LegalSegments # cv_segments

\* C24: if the conversion of a file succeeds with every entity name
\* legal, the conversion of the same file with some of the entity names
\* illegal returns True as well and writes the same annotations of the
\* other columns: the entities of the illegal names are dropped alone.
C24_IllegalNameDroppedAlone ==
    IllegalNameConverted =>
        LET legal == convert_local_from(
                         DictSet(reset_states, "_events", <<>>),
                         LegalSegments, 1, 0)
        IN  legal.err = "" =>
               /\ cv_pc = "returned"
               /\ cv_result = "True"
               /\ NormalizationsOf(converter._annotation_file) =
                      NormalizationsOf(legal._annotation_file)

\* every span of the ENTITY columns of the file has one raw type name in
\* all its rows
UniformSpans ==
    \A s \in 1..Len(cv_segments) :
    \A col \in cv_colspec._entities :
       LET spans == SpansFrom(cv_segments[s], col, 1, 0)
           raw(k) == SubSeq(Col(cv_segments[s][k], col), 3,
                            Len(Col(cv_segments[s][k], col)))
       IN  \A i \in 1..Len(spans) :
           \A k \in spans[i][1]..spans[i][2] : raw(k) = raw(spans[i][1])

\* the raw type names of the spans of the file that are keys of the name
\* dict
MappedSpanNames ==
    {cv_name_dict[key] : key \in
        {name \in DOMAIN cv_name_dict :
            \E s \in 1..Len(cv_segments) :
            \E col \in cv_colspec._entities :
            \E k \in 1..Len(cv_segments[s]) :
               SubSeq(Col(cv_segments[s][k], col), 3,
                      Len(Col(cv_segments[s][k], col))) = name}}

\* C25: with a name dict set, the conversion of a file of ENTITY columns
\* whose spans have one raw type name each does not fail for the
\* remapping: no exception leaves convert, and a conversion that returns
\* True has written the entity of every span under the name the dict maps
\* its raw name to.
C25_SpansRemapped ==
    /\ cv_name_dict # <<>>
    /\ cv_colspec._entities # {}
    /\ cv_colspec._pos_tag = {}
    /\ UniformSpans
    => /\ cv_pc # "raised"
       /\ cv_pc = "returned" /\ cv_result = "True" =>
             /\ [i \in 1..Len(Entities) |-> Entities[i].name] =
                    [i \in 1..Len(ExpectedEntities(1)) |->
                       ExpectedEntities(1)[i].name]
             /\ MappedSpanNames \subseteq
                    {Entities[i].name : i \in 1..Len(Entities)}

(***************************************************************************)
(* converter.py: the attributes                                            *)
(***************************************************************************)

\* the attributes written so far
Attributes ==
    SelectSeq(converter._annotation_file, LAMBDA ann : ann.cls = "Attribute")

\* the ATTRIBUTE column of a file with one ATTRIBUTE column
TheAttributeColumn == CHOOSE col \in DOMAIN cv_colspec._attributes : TRUE

\* the numbers, from 1, of the rows of the file up to row k that have an
\* attribute
AttributeRowsUpTo(k) ==
    {j \in 1..k :
        Col(Flat(cv_segments)[j], TheAttributeColumn) \notin {<<>>, NULL}}

\* the number of the i-th such row, and its field
AttributeRow(i) ==
    CHOOSE k \in 1..Len(Flat(cv_segments)) :
        /\ k \in AttributeRowsUpTo(k)
        /\ Cardinality(AttributeRowsUpTo(k)) = i
AttributeField(i) == Col(Flat(cv_segments)[AttributeRow(i)], TheAttributeColumn)

\* C26: a conversion of a file with one ATTRIBUTE column that returns
\* True has written one Attribute for each row with an attribute field:
\* of a field `name modifier` the one named name with the modifier
\* modifier, of a field `name` the one named name with no modifier, each
\* with the id registered for its own row in the target column of the
\* attribute as its target.
C26_AttributeOfEveryField ==
    /\ Cardinality(DOMAIN cv_colspec._attributes) = 1
    /\ cv_pc = "returned"
    /\ cv_result = "True"
    => /\ Len(Attributes) =
             Cardinality(AttributeRowsUpTo(Len(Flat(cv_segments))))
       /\ \A i \in 1..Len(Attributes) :
             /\ i <= Cardinality(AttributeRowsUpTo(Len(Flat(cv_segments))))
             /\ Attributes[i].name = split_once(AttributeField(i), " ")[1]
             /\ Attributes[i].modifier =
                    IF Len(split_once(AttributeField(i), " ")) = 2
                    THEN split_once(AttributeField(i), " ")[2] ELSE <<>>
             /\ Attributes[i].target =
                    IdOfRow(AttributeRow(i),
                            cv_colspec._attributes[TheAttributeColumn])

(***************************************************************************)
(* converter.py: otpl_to_brat with a file whose first segment is a colspec *)
(* header.  guess_colspec returns Spec.from_string of the header row,      *)
(* set_colspec takes it, and convert iterates the reader anew: the header  *)
(* row is the first segment convert is given.                              *)
(***************************************************************************)

\* the most rows after the header
MaxHeaderFileRows == 2

\* the header rows of the files
HeaderRows ==
    { <<Spell["TOKEN"], Spell["POS_TAG"]>>,
      <<Spell["TOKEN"], Spell["POS_TAG"], Spell["GLOBAL_REF"],
        Spell["RELATION"]>> }

\* the text of the rows after the header, and a text that starts with the
\* token field of the header
HeaderFileTexts(header, n) ==
    {TextOf(n), header[1] \o <<" ">> \o TextOf(n)}

\* otpl_to_brat up to convert: a file of a header segment and n rows of
\* its column types, or a file for which guess_colspec returned None
InitHeaderFile ==
    /\ \/ /\ cv_pc = "configured"
          /\ \E header \in HeaderRows :
                /\ cv_colspec = Spec_from_string(header).obj
                /\ cv_name_dict = <<>>
                /\ \E n \in 1..MaxHeaderFileRows :
                      /\ \E breaks \in SUBSET (1..(n - 1)) :
                         \E rows \in FilesOf(Spec_from_string(header).ints, n) :
                            cv_segments =
                                << <<header>> >> \o SegmentsOf(rows, breaks, 1)
                      /\ cv_text \in HeaderFileTexts(header, n)
       \/ /\ cv_pc = "no colspec"
          /\ cv_colspec = NewColumnSpecification(0)
          /\ cv_name_dict = <<>>
          /\ cv_segments = <<<<<<TokenOf(1)>>>>>>
          /\ cv_text = TextOf(1)
    /\ cv_seg = 0
    /\ cv_offset = 0
    /\ cv_local_maps = <<>>
    /\ cv_replayed = <<>>
    /\ converter = DictSet(reset_states, "_events", <<>>)
    /\ cv_result = ""

\* the first segment of the file is a colspec header
HeaderFile == cv_segments # <<>> /\ IsHeaderSegment(cv_segments[1])

\* the rows of the file after the header match the text, and no column is
\* a reference
RowsMatchText ==
    /\ cv_text = TextOf(Len(Flat(Tail(cv_segments))))
    /\ cv_colspec._global_refs = <<>>
    /\ cv_colspec._local_refs = <<>>

\* an entity written for the header row: its text is the token field of the
\* header
HeaderEntities ==
    SelectSeq(converter._annotation_file,
              LAMBDA ann : ann.cls = "Entity" /\ ann.text = cv_segments[1][1][1])

\* C30: the conversion of a file whose first segment is a colspec header
\* writes no annotation for the header row, and it returns True when the
\* rows after the header match the text
C30_HeaderOnlyColspec ==
    HeaderFile /\ cv_pc \in {"returned", "raised"} =>
        /\ HeaderEntities = <<>>
        /\ RowsMatchText => cv_pc = "returned" /\ cv_result = "True"

(***************************************************************************)
(* The specifications: each runs one part of the program and leaves the    *)
(* state of the other parts as it is.                                      *)
(***************************************************************************)

IdleColspec ==
    /\ cs_headers = <<>>
    /\ colspec = <<>>
    /\ cs_pc = "idle"
    /\ cs_idx = 0
    /\ cs_err = ""
    /\ self = NewColumnSpecification(0)
    /\ cs_str = <<>>

IdleOffsets ==
    /\ _text = <<>>
    /\ off_segments = <<>>
    /\ off_pc = "idle"
    /\ off_seg = 0
    /\ off_row = 0
    /\ off_start = 0
    /\ off_offsets = <<>>
    /\ off_tokens = <<>>

IdleReader ==
    /\ rd_lines = <<>>
    /\ rd_filter = "^$"
    /\ rd_pc = "idle"
    /\ rd_lno = 0
    /\ rd_column_count = 0
    /\ rd_segment = <<>>
    /\ rd_yielded = <<>>
    /\ rd_err = <<>>

IdleGuess ==
    /\ g_segments = <<>>
    /\ g_raises = ""
    /\ g_pc = "idle"
    /\ g_idx = 0
    /\ g_guess = NoGuess
    /\ g_last_round = FALSE
    /\ g_err = ""
    /\ g_ints = <<>>
    /\ g_spec = NewColumnSpecification(0)

IdleBatch ==
    /\ b_files = <<>>
    /\ b_separator = FALSE
    /\ b_colspec = FALSE
    /\ b_pc = "idle"
    /\ b_i = 0
    /\ b_errors = 0
    /\ b_err = ""
    /\ b_converted = {}
    /\ b_config = ""

IdleCodec ==
    /\ br_pc = "idle"
    /\ br_x = Ok(<<>>)
    /\ br_line = <<>>
    /\ br_y = Ok(<<>>)
    /\ br_out = <<>>

IdleSegmenter ==
    /\ ex_lines = <<>>
    /\ ex_factor = 1
    /\ ex_pc = "idle"
    /\ ex_i = 0
    /\ ex_segment_count = 0
    /\ ex_files = <<>>
    /\ ex_names = <<>>
    /\ ex_exists = {}


IdleConverter ==
    /\ cv_colspec = NewColumnSpecification(0)
    /\ cv_name_dict = <<>>
    /\ cv_text = <<>>
    /\ cv_segments = <<>>
    /\ cv_pc = "idle"
    /\ cv_seg = 0
    /\ cv_offset = 0
    /\ cv_local_maps = <<>>
    /\ cv_replayed = <<>>
    /\ converter = [err |-> ""]
    /\ cv_result = ""

InitSpecColspec == InitColspec /\ IdleOffsets /\ IdleReader /\ IdleGuess /\ IdleBatch
    /\ IdleCodec /\ IdleSegmenter /\ IdleConverter

SpecColspec == InitSpecColspec /\ [][NextColspec]_vars

InitSpecOffsets == InitOffsets /\ IdleColspec /\ IdleReader /\ IdleGuess /\ IdleBatch
    /\ IdleCodec /\ IdleSegmenter /\ IdleConverter

SpecOffsets == InitSpecOffsets /\ [][NextOffsets]_vars

InitSpecReader == InitReader /\ IdleColspec /\ IdleOffsets /\ IdleGuess /\ IdleBatch
    /\ IdleCodec /\ IdleSegmenter /\ IdleConverter

SpecReader == InitSpecReader /\ [][NextReader]_vars

InitSpecGuess == InitGuess /\ IdleColspec /\ IdleOffsets /\ IdleReader /\ IdleBatch
    /\ IdleCodec /\ IdleSegmenter /\ IdleConverter

SpecGuess == InitSpecGuess /\ [][NextGuess]_vars

InitSpecRounds == InitRounds /\ IdleColspec /\ IdleOffsets /\ IdleReader /\ IdleBatch
    /\ IdleCodec /\ IdleSegmenter /\ IdleConverter

SpecRounds == InitSpecRounds /\ [][NextGuess]_vars

InitSpecHeaderFile ==
    InitHeaderFile /\ IdleColspec /\ IdleOffsets /\ IdleReader /\ IdleGuess
    /\ IdleBatch /\ IdleCodec /\ IdleSegmenter

SpecHeaderFile == InitSpecHeaderFile /\ [][NextConverter]_vars

InitSpecBatch ==
    InitBatch /\ IdleColspec /\ IdleOffsets /\ IdleReader /\ IdleGuess
    /\ IdleCodec /\ IdleSegmenter /\ IdleConverter

SpecBatch == InitSpecBatch /\ [][NextBatch]_vars

InitSpecCodec ==
    InitCodec /\ IdleColspec /\ IdleOffsets /\ IdleReader /\ IdleGuess
    /\ IdleBatch /\ IdleSegmenter /\ IdleConverter

SpecCodec == InitSpecCodec /\ [][NextCodec]_vars

InitSpecSegmenter ==
    InitSegmenter /\ IdleColspec /\ IdleOffsets /\ IdleReader /\ IdleGuess
    /\ IdleBatch /\ IdleCodec /\ IdleConverter

SpecSegmenter == InitSpecSegmenter /\ [][NextSegmenter]_vars

InitSpecConverter ==
    InitConverter /\ IdleColspec /\ IdleOffsets /\ IdleReader /\ IdleGuess
    /\ IdleBatch /\ IdleCodec /\ IdleSegmenter

SpecConverter == InitSpecConverter /\ [][NextConverter]_vars

====
